---- MODULE Spec2Model ----
(***************************************************************************)
(* Pandora: Task / Report status aggregation (pandora/task.py), the        *)
(* Extractor worker (pandora/workers/extractor.py), the Observables worker *)
(* (pandora/workers/observables.py), File (pandora/file.py) and the Status *)
(* enumeration (pandora/helpers.py).                                       *)
(*                                                                         *)
(* The specifications share the variables below:                           *)
(*   Spec         one Task object, its Reports, status reads and writes    *)
(*   SpecExtract  one archive or mail, its handler and its child Tasks     *)
(*   SpecConv     Extractor.analyse with recursive child Tasks and a pool  *)
(*                of Extractor instances                                   *)
(*   SpecTimeout  the Extractor runs of a submission under the timeout     *)
(*   SpecFile     one File object, its digests and its deletion            *)
(*   SpecPassword encrypted archives and the Task's password               *)
(*   SpecCleanup  the extraction directory of an archive                   *)
(*   SpecDeclared archives whose entries declare a size they do not have   *)
(*   SpecDispatch the handler chosen for a file, by type and MIME type     *)
(*   SpecObservables  the Observables worker on a Task's observables       *)
(***************************************************************************)
EXTENDS Integers, Sequences, FiniteSets, TLC

VARIABLES
    tasks,            \* the Task identifiers created so far
    parent,           \* Task.parent of every Task (NoTask for a submission)
    file,             \* Task.file of every Task
    disabled_workers, \* Task.disabled_workers of every Task
    storage,          \* the stored Report of every (Task, worker), or NoReport
    _status,          \* Task._status of every Task object
    lastRead,         \* what the last read of Task.status returned, per Task
    pc,               \* where Extractor.analyse stands, per Task
    spawned,          \* the local list `tasks` of Extractor.analyse, per Task
    extractedOf,      \* the local list `extracted` of Extractor.analyse, per Task
    task_password,    \* Task.password of every Task (0: none)
    settings,         \* the Extractor's settings (its configuration)
    references,       \* the (parent, child) pairs add_extracted_reference recorded
    enqueued,         \* how many times enqueue_task was called, per Task
    extracted_dir,    \* whether the Task's extraction directory is on disk
    origin,           \* Task.origin of every Task (NoTask: none)
    observables       \* Task.observables of every Task: their statuses, in order

vars == << tasks, parent, file, disabled_workers, storage, _status, lastRead,
           pc, spawned, extractedOf, task_password, settings, references,
           enqueued, extracted_dir, origin, observables >>

None == "None"

\* Task.parent of a Task that has none.
NoTask == 0

-----------------------------------------------------------------------------
(* helpers.py: class Status(IntEnum), members numbered by auto() from 1.   *)

StatusNames ==
    << "WAITING", "RUNNING", "DELETED", "NOTAPPLICABLE", "MANUAL", "UNKNOWN",
       "DEACTIVATE", "DISABLED", "ERROR", "OKAY", "CLEAN", "WARN", "ALERT",
       "OVERWRITE" >>

Status == { StatusNames[i] : i \in 1..Len(StatusNames) }

\* The integer value of a member (IntEnum comparison is on this value).
Rank(s) == CHOOSE i \in 1..Len(StatusNames) : StatusNames[i] = s

\* max() over a non-empty set of statuses.
MaxStatus(S) == CHOOSE s \in S : \A o \in S : Rank(o) <= Rank(s)

\* task.py names the "all good" member Status.SUCCESS; helpers.py has no member
\* of that name. The workers report the all-good verdict as CLEAN
\* (extractor.py:164), which is what the name is read as here.
SUCCESS == "CLEAN"

-----------------------------------------------------------------------------
(* Report: status, finished flag, details (append-only), extras.           *)

Report(st, done, details, extras) ==
    [status |-> st, is_done |-> done, details |-> details, extras |-> extras]

\* What Storage.get_report gives for a (Task, worker) nothing was stored for.
NoReport == [status |-> "NoReport", is_done |-> FALSE, details |-> <<>>, extras |-> {}]

HasReport(t, name) == storage[t][name].status # "NoReport"

\* Report(task_uuid, worker_name): a Report nothing was stored for yet.
NewReport == Report("WAITING", FALSE, <<>>, {})

\* helpers.workers(): the configured worker names, sorted by name.
WorkerNames == << "extractor", "observables", "yara" >>

Workers == { WorkerNames[i] : i \in 1..Len(WorkerNames) }

\* No worker is skipped for being in disabled_workers.
IsEnabledAlways(t, name) == TRUE

\* if worker_name in self.disabled_workers: continue
IsEnabled(t, name) == name \notin disabled_workers[t]

\* Task.reports over the store given: one Report per worker not in
\* disabled_workers, in the order of workers(); the stored Report when
\* there is one, a new Report otherwise.
LoadReportIn(store, t, name) ==
    IF store[t][name].status # "NoReport" THEN store[t][name] ELSE NewReport

ReportsIn(store, t) ==
    LET names == SelectSeq(WorkerNames, LAMBDA n : IsEnabled(t, n))
    IN  [i \in 1..Len(names) |-> LoadReportIn(store, t, names[i])]

LoadReport(t, name) == LoadReportIn(storage, t, name)

reports(t) == ReportsIn(storage, t)

\* Task.workers_done over the Reports in iteration order.
AllDone(rs) == \A i \in 1..Len(rs) : rs[i].is_done

workers_done(t) == AllDone(reports(t))

\* The statuses that Task.status returns from the field without recomputing.
StoredFinal == {"DELETED", "ERROR", "ALERT", "WARN", SUCCESS}

\* The loop of Task.status: the status of the first Report that is not SUCCESS.
FirstNotSuccess(rs) ==
    IF \E i \in 1..Len(rs) : rs[i].status # SUCCESS
    THEN rs[CHOOSE i \in 1..Len(rs) :
               /\ rs[i].status # SUCCESS
               /\ \A j \in 1..(i - 1) : rs[j].status = SUCCESS].status
    ELSE SUCCESS

\* Task.status (getter) as a function of the field and the Reports in
\* iteration order. Every branch also assigns the result to the field.
StatusOf(field, rs) ==
    IF field \in StoredFinal THEN field
    ELSE IF AllDone(rs) THEN FirstNotSuccess(rs)
    ELSE "WAITING"

status(t) == StatusOf(_status[t], reports(t))

-----------------------------------------------------------------------------
(* File: what the Task and the Extractor read of it.                       *)

\* A File: its detected MIME type, the suffix of its name, the deleted flag,
\* its size and, for a container, its entries (archive members or
\* attachments).
File(mime, suffix, deleted, size, entries) ==
    [mime_type |-> mime, suffix |-> suffix, deleted |-> deleted, size |-> size,
     entries |-> entries]

\* A file of the given size that is no container.
PlainFile(deleted, size) == File("text/plain", ".txt", deleted, size, <<>>)

\* File.MIME_TYPE_EQUAL, for the MIME types of the model.
MIME_TYPE_EQUAL ==
    [m \in {"application/zip", "application/java-archive",
            "application/x-7z-compressed", "message/rfc822",
            "application/vnd.ms-outlook", "text/plain"} |->
        CASE m = "message/rfc822" -> "EML"
          [] m = "application/vnd.ms-outlook" -> "MSG"
          [] m = "text/plain" -> "TXT"
          [] OTHER -> "ARC"]

\* File.TYPE_EXTENSIONS, for the suffixes of the model.
TYPE_EXTENSIONS ==
    [ty \in {"ARC", "BIN", "EML", "MSG", "TXT"} |->
        CASE ty = "ARC" -> {".zip", ".tar", ".gz", ".bz2", ".bz", ".rar", ".7z"}
          [] ty = "BIN" -> {".bin", ".iso"}
          [] ty = "EML" -> {".eml"}
          [] ty = "MSG" -> {".msg"}
          [] ty = "TXT" -> {".txt"}]

\* File.type: by the .eml suffix, then the MIME type, then the suffix.
FileType(f) ==
    IF f.suffix = ".eml" THEN "EML"
    ELSE IF f.mime_type \in DOMAIN MIME_TYPE_EQUAL THEN MIME_TYPE_EQUAL[f.mime_type]
    ELSE IF \E ty \in DOMAIN TYPE_EXTENSIONS : f.suffix \in TYPE_EXTENSIONS[ty]
    THEN CHOOSE ty \in DOMAIN TYPE_EXTENSIONS : f.suffix \in TYPE_EXTENSIONS[ty]
    ELSE "BIN"

is_archive(f) == FileType(f) = "ARC"
is_eml(f) == FileType(f) = "EML"
is_msg(f) == FileType(f) = "MSG"

\* The slot of a Task that does not exist (yet).
NoFile == File("None", "None", FALSE, 0, <<>>)

\* Task.__init__ with no status argument: the field starts WAITING, and is
\* set to DELETED through the setter when the file is deleted.
InitialStatus(f) == IF f.deleted THEN "DELETED" ELSE "WAITING"

-----------------------------------------------------------------------------
(* Report operations used by the workers.                                  *)

\* One entry of Report.details: add_details('Warning', message), with the
\* numbers the message cites.
Detail(msg, n, limit) == [label |-> "Warning", msg |-> msg, n |-> n, limit |-> limit]

SetStatus(rep, st) == [rep EXCEPT !.status = st]
add_details(rep, d) == [rep EXCEPT !.details = Append(@, d)]
add_extra(rep, key) == [rep EXCEPT !.extras = @ \cup {key}]
clear_extras(rep) == [rep EXCEPT !.extras = {}]
clear_details(rep) == [rep EXCEPT !.details = <<>>]

-----------------------------------------------------------------------------
(* Extractor: the format handlers. A handler gets the archive's entries,   *)
(* the Report and the Extractor's settings, and gives the list of          *)
(* extracted entries, the Report as it leaves it, and whether it raised.   *)

\* Status.ERROR if self.max_is_error else Status.ALERT
OverflowStatus(cfg) == IF cfg.max_is_error THEN "ERROR" ELSE "ALERT"

Returned(extracted, rep) == [extracted |-> extracted, report |-> rep, raised |-> FALSE]
Raised(rep) == [extracted |-> <<>>, report |-> rep, raised |-> TRUE]

\* The size test off by one.
TooBigOffByOne(cfg, size) == size > cfg.max_extracted_filesize + 1

\* The size tests of the handlers: _extract_zip and _extract_rar skip a
\* member above the ceiling, _extract_tar, _extract_iso and _extract_7z one
\* (or a total) at or above it.
TooBig(cfg, size) == size > cfg.max_extracted_filesize
AtCeiling(cfg, size) == size >= cfg.max_extracted_filesize

\* Whether the reading library decrypts the entry with the password: the
\* password is the entry's, and the legacy zipfile reader has no AES.
CanDecrypt(lib, info, pwd) ==
    /\ pwd = info.pwd
    /\ (info.aes => lib # "zipfile")

\* The member as archive.extract (zipfile, pyzipper, rarfile) and
\* extractall (py7zr) write it: the reader stops at the size the container
\* declares for the member, so of a member that holds more the file written
\* has the declared length.
Written(info) ==
    IF info.declared < info.size
    THEN [info EXCEPT !.content = [@ EXCEPT !.size = info.declared]]
    ELSE info

\* The candidates in self.passwords that decrypt the entry, in list order.
Candidates(lib, info, passwords) ==
    SelectSeq(passwords, LAMBDA pw : CanDecrypt(lib, info, pw))

\* The candidates the loop over self.passwords tries on the entry: those up
\* to the first that decrypts it, all of them when none does.
Tried(lib, info, passwords) ==
    LET ok == { j \in 1..Len(passwords) : CanDecrypt(lib, info, passwords[j]) }
    IN  IF ok = {} THEN passwords
        ELSE SubSeq(passwords, 1, CHOOSE j \in ok : \A k \in ok : j <= k)

\* found_password never set: every encrypted entry is probed.
FoundNever(probing, found) == FALSE

\* found_password after the entry: set once a candidate decrypted an entry.
FoundAfter(probing, found) == IF probing THEN TRUE ELSE found

\* What a pass over archive.infolist() gives, with the probes it made
\* (archive.read or archive.open with a candidate), in order, each as
\* << number of the entry, candidate >>, and what archive.setpassword was
\* given (0: nothing).
Probed(r, probes, pwd) ==
    [extracted |-> r.extracted, report |-> r.report, raised |-> r.raised,
     probes |-> probes, password |-> pwd]

\* The loop over archive.infolist() of _extract_zip and _extract_rar, from
\* entry i on. found: found_password; pwd: what archive.setpassword was given
\* (0: nothing).
RECURSIVE InfoLoop(_, _, _, _, _, _, _, _)
InfoLoop(lib, cfg, passwords, entries, i, found, pwd, acc) ==
    IF i > Len(entries)
    THEN \* the for's else: everything was enumerated
         Probed(Returned(acc.extracted,
                    IF acc.report.status = "RUNNING"
                    THEN SetStatus(acc.report, "CLEAN") ELSE acc.report),
                acc.probes, pwd)
    ELSE
    LET info == entries[i]
        file_number == i - 1
        cands == Candidates(lib, info, passwords)
        probing == info.encrypted /\ ~found
        tried == Tried(lib, info, passwords)
        probes2 == IF probing
                   THEN acc.probes \o [j \in 1..Len(tried) |-> << i, tried[j] >>]
                   ELSE acc.probes
        found2 == FoundAfter(probing, found)
        pwd2 == IF probing /\ Len(cands) > 0 THEN cands[1] ELSE pwd
    IN  IF file_number >= cfg.max_files_in_archive
        THEN Probed(Returned(acc.extracted,
                 add_details(SetStatus(acc.report, OverflowStatus(cfg)),
                     Detail("Too many files in the archive",
                            IF lib = "rarfile" THEN file_number ELSE Len(entries),
                            cfg.max_files_in_archive))), acc.probes, pwd)
        ELSE IF probing /\ Len(cands) = 0
        THEN Probed(Returned(acc.extracted,
                 add_extra(add_details(SetStatus(acc.report, "WARN"),
                     Detail("File encrypted and unable to find password", 0, 0)),
                     "no_password")), probes2, pwd)
        ELSE IF info.is_dir
        THEN InfoLoop(lib, cfg, passwords, entries, i + 1, found2, pwd2,
                 [acc EXCEPT !.probes = probes2])
        ELSE IF TooBig(cfg, info.declared)
        THEN \* info.file_size
             InfoLoop(lib, cfg, passwords, entries, i + 1, found2, pwd2,
                 [acc EXCEPT !.report =
                     add_details(SetStatus(@, OverflowStatus(cfg)),
                                 Detail("Skipping file, too big", info.declared, 0)),
                             !.probes = probes2])
        ELSE IF (info.encrypted /\ ~CanDecrypt(lib, info, pwd2)) \/ info.corrupt
        THEN \* archive.extract raises on an entry the set password does not
             \* open, and on corrupt data
             Probed(Raised(acc.report), probes2, pwd2)
        ELSE InfoLoop(lib, cfg, passwords, entries, i + 1, found2, pwd2,
                 [acc EXCEPT !.extracted = Append(@, Written(info)),
                             !.probes = probes2])

\* _extract_zip(archive_file, report, dest_dir, zip_reader)
extract_zip(cfg, passwords, f, rep, zip_reader) ==
    InfoLoop(zip_reader, cfg, passwords, f.entries, 1, FALSE, 0,
             [extracted |-> <<>>, report |-> rep, probes |-> <<>>])

\* _extract_rar(archive_file, report, dest_dir)
extract_rar(cfg, passwords, f, rep) ==
    InfoLoop("rarfile", cfg, passwords, f.entries, 1, FALSE, 0,
             [extracted |-> <<>>, report |-> rep, probes |-> <<>>])

\* The loop over tar.getmembers() of _extract_tar, from member i on.
RECURSIVE TarLoop(_, _, _, _)
TarLoop(cfg, entries, i, acc) ==
    IF i > Len(entries) THEN Returned(acc.extracted, acc.report)
    ELSE
    LET tarinfo == entries[i]
        file_number == i - 1
    IN  IF file_number >= cfg.max_files_in_archive
        THEN Returned(acc.extracted,
                 add_details(SetStatus(acc.report, OverflowStatus(cfg)),
                     Detail("Too many files in the archive", file_number,
                            cfg.max_files_in_archive)))
        ELSE IF tarinfo.is_dir
        THEN TarLoop(cfg, entries, i + 1, acc)
        ELSE IF AtCeiling(cfg, tarinfo.size)
        THEN TarLoop(cfg, entries, i + 1,
                 [acc EXCEPT !.report =
                     add_details(SetStatus(@, OverflowStatus(cfg)),
                                 Detail("File too big", tarinfo.size, 0))])
        ELSE IF tarinfo.corrupt
        THEN \* tar.extract raises
             Raised(acc.report)
        ELSE TarLoop(cfg, entries, i + 1,
                 [acc EXCEPT !.extracted = Append(@, tarinfo)])

\* _extract_tar(archive_file, report, dest_dir)
extract_tar(cfg, f, rep) ==
    TarLoop(cfg, f.entries, 1, [extracted |-> <<>>, report |-> rep])

\* The walk of _extract_iso, from entry i on. An is_dir entry stands for the
\* start of the next directory walk() yields, the entries after it for its
\* filelist (the entries before the first one for the filelist of '/').
RECURSIVE IsoWalk(_, _, _, _)
IsoWalk(cfg, entries, i, acc) ==
    IF i > Len(entries) THEN acc
    ELSE IF entries[i].is_dir
    THEN \* next directory of the walk
         IF Len(acc.extracted) > cfg.max_files_in_archive THEN acc
         ELSE IsoWalk(cfg, entries, i + 1, acc)
    ELSE IF entries[i].corrupt
    THEN \* get_file_from_iso_fp raises
         [acc EXCEPT !.raised = TRUE]
    ELSE IF AtCeiling(cfg, entries[i].size)
    THEN IsoWalk(cfg, entries, i + 1,
             [acc EXCEPT !.report =
                 add_details(SetStatus(@, OverflowStatus(cfg)),
                             Detail("File too big", entries[i].size, 0))])
    ELSE IF Len(acc.extracted) > cfg.max_files_in_archive
    THEN \* break: the directories that follow break at their first check
         acc
    ELSE IsoWalk(cfg, entries, i + 1,
             [acc EXCEPT !.extracted = Append(@, entries[i])])

\* _extract_iso(archive_file, report, dest_dir)
extract_iso(cfg, f, rep) ==
    LET walked == IsoWalk(cfg, f.entries, 1,
                          [extracted |-> <<>>, report |-> rep, raised |-> FALSE])
    IN  IF walked.raised THEN Raised(walked.report)
        ELSE IF Len(walked.extracted) > cfg.max_files_in_archive
        THEN Returned(walked.extracted,
                 add_details(SetStatus(walked.report, OverflowStatus(cfg)),
                     Detail("Too many files in the archive", 0,
                            cfg.max_files_in_archive)))
        ELSE Returned(walked.extracted, walked.report)

\* _try_password_7z(path): the first candidate that opens the archive and
\* reads its first file; 0 for None.
try_password_7z(passwords, f) ==
    LET cands == Candidates("py7zr", f.entries[1], passwords)
    IN  IF Len(cands) > 0 THEN cands[1] ELSE 0

\* The members that extractall leaves as files at the top of dest_dir.
TopFiles(entries) == SelectSeq(entries, LAMBDA e : ~e.is_dir /\ ~e.nested)

\* archive.archiveinfo().uncompressed
RECURSIVE SumSizes(_, _)
SumSizes(entries, i) ==
    IF i > Len(entries) THEN 0 ELSE entries[i].declared + SumSizes(entries, i + 1)

\* _extract_7z(archive_file, report, dest_dir). Reading the first file
\* without a password raises PasswordRequired when it is encrypted.
extract_7z(cfg, passwords, f, rep) ==
    LET needs_password == Len(f.entries) > 0 /\ f.entries[1].encrypted
        password == IF needs_password THEN try_password_7z(passwords, f) ELSE 0
        uncompressed == SumSizes(f.entries, 1)
    IN  IF needs_password /\ password = 0
        THEN Returned(<<>>,
                 add_extra(add_details(SetStatus(rep, "WARN"),
                     Detail("Encrypted archive, unable to find password", 0, 0)),
                     "no_password"))
        ELSE IF AtCeiling(cfg, uncompressed)
        THEN Returned(<<>>,
                 add_details(SetStatus(rep, OverflowStatus(cfg)),
                             Detail("File too big", uncompressed, 0)))
        ELSE IF Len(f.entries) > cfg.max_files_in_archive
        THEN Returned(<<>>,
                 add_details(SetStatus(rep, OverflowStatus(cfg)),
                     Detail("Too many files in the archive", Len(f.entries),
                            cfg.max_files_in_archive)))
        ELSE IF \E i \in 1..Len(f.entries) :
                    \/ /\ f.entries[i].encrypted
                       /\ ~CanDecrypt("py7zr", f.entries[i], password)
                    \/ f.entries[i].corrupt
        THEN \* extractall raises
             Raised(rep)
        ELSE \* the files of the top of dest_dir
             Returned([i \in 1..Len(TopFiles(f.entries)) |->
                          Written(TopFiles(f.entries)[i])], rep)

\* _extract_bz2, _extract_gz, _extract_lzma: one compressed member, read up
\* to max_extracted_filesize + 1 bytes.
Min(a, b) == IF a <= b THEN a ELSE b

extract_stream(cfg, f, rep) ==
    LET member == f.entries[1]
        len_data == Min(member.size, cfg.max_extracted_filesize + 1)
    IN  IF member.corrupt
        THEN \* read raises
             Raised(rep)
        ELSE IF TooBig(cfg, len_data)
        THEN Returned(<<>>,
                 add_details(SetStatus(rep, OverflowStatus(cfg)),
                             Detail("File too big", len_data, 0)))
        ELSE Returned(<< member >>, rep)

-----------------------------------------------------------------------------
(* The runner of a worker on a Task (Worker Dispatch Contract).            *)

\* The statuses a worker's run ends with: DISABLED and ERROR come from the
\* runner, the others from analyse (extractor.py, yara_signature_base.py,
\* mwdb.py, comodo.py, observables.py).
WorkerOutcomes ==
    {"NOTAPPLICABLE", "MANUAL", "DISABLED", "ERROR", "CLEAN", "WARN", "ALERT"}

\* A worker begins on the Task: its Report is created RUNNING.
RunnerStart(t, w) ==
    /\ t \in tasks
    /\ IsEnabled(t, w)
    /\ LoadReport(t, w).status = "WAITING"
    /\ storage' = [storage EXCEPT ![t][w] = Report("RUNNING", FALSE, <<>>, {})]
    /\ UNCHANGED << tasks, parent, file, disabled_workers, _status, lastRead,
                    pc, spawned, extractedOf, task_password, settings,
                    references, enqueued, extracted_dir,
                    origin, observables >>

\* The run ends: the Report gets its status and is marked finished, once.
RunnerFinish(t, w, st) ==
    /\ t \in tasks
    /\ HasReport(t, w)
    /\ storage[t][w].status = "RUNNING"
    /\ storage' = [storage EXCEPT ![t][w] =
                       Report(st, TRUE, storage[t][w].details, storage[t][w].extras)]
    /\ UNCHANGED << tasks, parent, file, disabled_workers, _status, lastRead,
                    pc, spawned, extractedOf, task_password, settings,
                    references, enqueued, extracted_dir,
                    origin, observables >>

\* A finished worker is run again on the Task (manual_trigger): a new run,
\* with a new RUNNING Report.
ManualRun(t, w) ==
    /\ t \in tasks
    /\ HasReport(t, w)
    /\ storage[t][w].is_done
    /\ storage' = [storage EXCEPT ![t][w] = Report("RUNNING", FALSE, <<>>, {})]
    /\ UNCHANGED << tasks, parent, file, disabled_workers, _status, lastRead,
                    pc, spawned, extractedOf, task_password, settings,
                    references, enqueued, extracted_dir,
                    origin, observables >>

-----------------------------------------------------------------------------
(* Task.status, read and written.                                          *)

\* A read of the property Task.status: returns status(t) and leaves it in
\* the field.
ReadStatus(t) ==
    /\ t \in tasks
    /\ _status' = [_status EXCEPT ![t] = status(t)]
    /\ lastRead' = [lastRead EXCEPT ![t] = status(t)]
    /\ UNCHANGED << tasks, parent, file, disabled_workers, storage, pc,
                    spawned, extractedOf, task_password, settings,
                    references, enqueued, extracted_dir,
                    origin, observables >>


\* A write of the property Task.status (the setter): the field takes the
\* value.
WriteStatus(t, st) ==
    /\ t \in tasks
    /\ _status' = [_status EXCEPT ![t] = st]
    /\ UNCHANGED << tasks, parent, file, disabled_workers, storage, lastRead, pc,
                    spawned, extractedOf, task_password, settings,
                    references, enqueued, extracted_dir,
                    origin, observables >>

\* The status an operator sets a Task to.
OperatorStatuses == {"OVERWRITE"}

-----------------------------------------------------------------------------
(* The size of the model.                                                  *)

\* The Task identifiers the model has room for.
MaxTasks == 4

TaskIds == 1..MaxTasks

\* The entries an archive of the model has at most.
MaxEntries == 3

\* The largest max_files_in_archive the settings are drawn from.
MaxFilesSetting == 2

\* The per-file ceiling max_extracted_filesize of the settings; entry sizes
\* go up to one more.
Ceiling == 2

\* The Extractor instances of the pool.
ExtractorInstances == 3

-----------------------------------------------------------------------------
(* Extractor.analyse.                                                      *)

\* The Extractor's settings: max_files_in_archive, max_extracted_filesize,
\* max_is_error and zip_passwords.
Settings(max_files, max_size, is_error, pwds) ==
    [max_files_in_archive |-> max_files, max_extracted_filesize |-> max_size,
     max_is_error |-> is_error, zip_passwords |-> pwds]

\* The Task's password tried first, then the configured list.
passwords_seeded(t) ==
    IF task_password[t] # 0 THEN << task_password[t] >> \o settings.zip_passwords
    ELSE settings.zip_passwords

\* self.passwords: the Task's password alone when it has one, the configured
\* list otherwise.
passwords(t) == IF task_password[t] # 0 THEN << task_password[t] >> ELSE settings.zip_passwords

ZipMime == "application/zip"
SevenZipMime == "application/x-7z-compressed"
RarMime == "application/x-rar"
TarMime == "application/x-tar"
IsoMime == "application/x-iso9660-image"
StreamMimes == {"application/x-bzip2", "application/gzip", "application/x-lzma",
                "application/x-xz", "application/x-lzip"}

\* The zip branch with a second pass on the Report as the first pass left
\* it.
extract_zip_twice_uncleared(cfg, pwds, f, rep) ==
    LET first == extract_zip(cfg, pwds, f, rep, "zipfile")
    IN  IF first.raised \/ first.extracted # <<>> THEN first
        ELSE extract_zip(cfg, pwds, f, first.report, "pyzipper")

\* The zip branch: a second pass with pyzipper.AESZipFile, on the Report
\* with extras and details cleared, when the first pass extracted nothing.
extract_zip_twice(cfg, pwds, f, rep) ==
    CHOOSE second \in
        { IF first.raised \/ first.extracted # <<>> THEN first
          ELSE extract_zip(cfg, pwds, f, clear_details(clear_extras(first.report)),
                           "pyzipper") :
          first \in { extract_zip(cfg, pwds, f, rep, "zipfile") } } : TRUE

\* The handler the if/elif chain on task.file.mime_type selects; any other
\* type raises PandoraException('Unsupported mimetype').
HandlerOf(mime) ==
    CASE mime = SevenZipMime -> "_extract_7z"
      [] mime = RarMime -> "_extract_rar"
      [] mime = "application/x-bzip2" -> "_extract_bz2"
      [] mime = "application/gzip" -> "_extract_gz"
      [] mime = TarMime -> "_extract_tar"
      [] mime \in {"application/x-lzma", "application/x-xz", "application/x-lzip"} ->
             "_extract_lzma"
      [] mime = IsoMime -> "_extract_iso"
      [] mime = ZipMime -> "_extract_zip"
      [] OTHER -> "unsupported"

\* The dispatch on task.file.mime_type.
Dispatch(cfg, pwds, f, rep) ==
    CASE HandlerOf(f.mime_type) = "_extract_7z" -> extract_7z(cfg, pwds, f, rep)
      [] HandlerOf(f.mime_type) = "_extract_rar" -> extract_rar(cfg, pwds, f, rep)
      [] HandlerOf(f.mime_type) = "_extract_tar" -> extract_tar(cfg, f, rep)
      [] HandlerOf(f.mime_type) = "_extract_iso" -> extract_iso(cfg, f, rep)
      [] HandlerOf(f.mime_type) \in {"_extract_bz2", "_extract_gz", "_extract_lzma"} ->
             extract_stream(cfg, f, rep)
      [] HandlerOf(f.mime_type) = "_extract_zip" -> extract_zip_twice(cfg, pwds, f, rep)
      [] OTHER -> Raised(rep)

\* The dispatch without the except clause: what raised leaves the Report as
\* it was.
ExtractArchiveUncaught(cfg, pwds, f, rep) ==
    LET r == Dispatch(cfg, pwds, f, rep)
    IN  [extracted |-> r.extracted, report |-> r.report]

\* The try/except around the dispatch: whatever a handler raises makes the
\* Report WARN, with a detail and the no_password extra, and nothing extracted.
ExtractArchive(cfg, pwds, f, rep) ==
    CHOOSE caught \in
        { IF r.raised
          THEN [extracted |-> <<>>,
                report |-> add_extra(add_details(SetStatus(r.report, "WARN"),
                                         Detail("Unable to extract", 0, 0)),
                                     "no_password")]
          ELSE [extracted |-> r.extracted, report |-> r.report] :
          r \in { Dispatch(cfg, pwds, f, rep) } } : TRUE

\* The attachments before the first one the loop raises on.
ReadablePrefix(es) ==
    LET bad == { i \in 1..Len(es) : es[i].corrupt }
    IN  IF bad = {} THEN es
        ELSE SubSeq(es, 1, (CHOOSE i \in bad : \A j \in bad : i <= j) - 1)

\* The extracted files before the first one whose child Task cannot be
\* made (Task.new_task, add_extracted_reference or enqueue_task raises).
SpawnablePrefix(es) ==
    LET bad == { i \in 1..Len(es) : es[i].new_task_raises }
    IN  IF bad = {} THEN es
        ELSE SubSeq(es, 1, (CHOOSE i \in bad : \A j \in bad : i <= j) - 1)

\* shutil.rmtree(extracted_dir) follows the loop making the child Tasks: it
\* runs when the loop made a child of every payload.
Removed(payloads, made) == made = payloads

\* The payloads that become child Tasks, and the Report, when analyse
\* reaches the wait; early is TRUE when analyse returns before it, uncaught
\* when an exception leaves it, dir_left when the directory made for the
\* extraction is still there.
BeforeWait(t) ==
    LET f == file[t]
        rep == Report("RUNNING", FALSE, <<>>, {})
    IN  IF ~(is_archive(f) \/ is_eml(f) \/ is_msg(f))
        THEN [early |-> TRUE, payloads |-> <<>>, extracted |-> <<>>,
              report |-> SetStatus(rep, "NOTAPPLICABLE"),
              uncaught |-> FALSE, dir_left |-> FALSE]
        ELSE IF is_archive(f)
        THEN \* the loop making the child Tasks is under no try
             CHOOSE b \in
                 { [early |-> FALSE, payloads |-> SpawnablePrefix(arc.extracted),
                    extracted |-> arc.extracted, report |-> arc.report,
                    uncaught |-> SpawnablePrefix(arc.extracted) # arc.extracted,
                    dir_left |-> ~Removed(arc.extracted,
                                          SpawnablePrefix(arc.extracted))] :
                   arc \in { ExtractArchive(settings, passwords(t), f, rep) } } : TRUE
        ELSE IF f.entries = <<>>
        THEN \* an EML without attachment, a MSG that gave no file
             [early |-> TRUE, payloads |-> <<>>, extracted |-> <<>>,
              report |-> SetStatus(rep, "NOTAPPLICABLE"),
              uncaught |-> FALSE, dir_left |-> FALSE]
        ELSE \* an exception in the loop over the attachments is logged, and
             \* analyse goes on to the wait with the Tasks created so far
             [early |-> FALSE, payloads |-> ReadablePrefix(f.entries),
              extracted |-> <<>>, report |-> rep,
              uncaught |-> FALSE,
              dir_left |-> ~Removed(f.entries, ReadablePrefix(f.entries))]

\* The parent as the origin of its child Tasks.
OriginIsParent(t) == t

\* Task.new_task(..., parent=task): the origin of the new Task is the
\* parent's origin when the parent has one, the parent otherwise.
OriginFor(t) == IF origin[t] # NoTask THEN origin[t] ELSE t

\* Child Tasks that are aliases of existing Tasks.
NewIdsReused(k) == [i \in 1..k |-> i]

\* The identifiers Task.new_task gives to k new Tasks.
NewIds(k) == [i \in 1..k |-> Cardinality(tasks) + i]

\* An Extractor instance is occupied by the Task it runs analyse on.
ExtractorBusy == { t \in tasks : HasReport(t, "extractor") /\ ~storage[t]["extractor"].is_done }

\* The Report as the runner marks it once analyse has returned.
Finished(rep) == [rep EXCEPT !.is_done = TRUE]

\* The Report as the runner finalizes it when an exception leaves analyse:
\* ERROR, with a detail.
Failed(rep) == add_details(SetStatus(rep, "ERROR"), Detail("exception", 0, 0))

\* A child Task with no worker disabled.
NothingDisabled(t) == {}

\* disabled_workers=task.disabled_workers
InheritedDisabled(t) == disabled_workers[t]

\* The runner starts the Extractor on the Task, on a free instance, with a
\* RUNNING Report, and analyse runs up to the wait: extraction, one child
\* Task per payload (created, recorded as extracted from the Task,
\* enqueued), in the order of the list. When analyse returns before the
\* wait the runner marks the Report finished; when an exception leaves
\* analyse the runner makes the Report ERROR and marks it finished.
AnalyseBegin(t) ==
    /\ t \in tasks
    /\ pc[t] = "idle"
    /\ IsEnabled(t, "extractor")
    /\ LoadReport(t, "extractor").status = "WAITING"
    /\ Cardinality(ExtractorBusy) < ExtractorInstances
    /\ \E b \in { BeforeWait(t) } :
       LET k == Len(b.payloads)
           ids == NewIds(k)
           new == { ids[i] : i \in 1..k }
           at(c) == CHOOSE i \in 1..k : ids[i] = c
       IN  /\ Cardinality(tasks) + k <= MaxTasks
           /\ tasks' = tasks \cup new
           /\ parent' = [c \in TaskIds |-> IF c \in new THEN t ELSE parent[c]]
           /\ origin' = [c \in TaskIds |-> IF c \in new THEN OriginFor(t) ELSE origin[c]]
           /\ file' = [c \in TaskIds |->
                          IF c \in new THEN b.payloads[at(c)].content ELSE file[c]]
           /\ disabled_workers' = [c \in TaskIds |->
                          IF c \in new THEN InheritedDisabled(t) ELSE disabled_workers[c]]
           /\ references' = references \cup { << t, c >> : c \in new }
           /\ enqueued' = [c \in TaskIds |->
                          IF c \in new THEN enqueued[c] + 1 ELSE enqueued[c]]
           /\ _status' = [c \in TaskIds |->
                          IF c \in new THEN InitialStatus(b.payloads[at(c)].content)
                          ELSE _status[c]]
           /\ storage' = [storage EXCEPT ![t]["extractor"] =
                              IF b.uncaught THEN Finished(Failed(b.report))
                              ELSE IF b.early THEN Finished(b.report) ELSE b.report]
           /\ spawned' = [spawned EXCEPT ![t] = ids]
           /\ extractedOf' = [extractedOf EXCEPT ![t] = b.extracted]
           /\ extracted_dir' = [extracted_dir EXCEPT ![t] = b.dir_left]
           /\ pc' = [pc EXCEPT ![t] =
                         IF b.early \/ b.uncaught THEN "returned" ELSE "waiting"]
    /\ UNCHANGED << lastRead, task_password, settings, observables >>

\* The statuses read from the child Task objects at the end of the wait.
ChildStatuses(t) == { status(spawned[t][i]) : i \in 1..Len(spawned[t]) }

\* The status of the first child instead of the maximum.
ChildrenFirst(t) == status(spawned[t][1])

\* max(t.status for t in tasks)
ChildrenMax(t) == MaxStatus(ChildStatuses(t))

\* The end of analyse with an empty archive taken for a clean one.
FinalizeEmptyClean(t, rep) ==
    IF spawned[t] # <<>> THEN SetStatus(rep, ChildrenMax(t)) ELSE SetStatus(rep, "CLEAN")

\* The end of analyse, once every child Task has workers_done: the maximum
\* of the children's statuses, or WARN when there is no child.
Finalize(t, rep) ==
    IF spawned[t] # <<>>
    THEN LET st == ChildrenMax(t)
         IN  IF Rank(st) > Rank("CLEAN")
             THEN add_details(SetStatus(rep, st),
                              Detail("There are suspicious files in this archive", 0, 0))
             ELSE SetStatus(rep, st)
    ELSE add_details(SetStatus(rep, "WARN"),
                     Detail("Looks like the archive is empty", 0, 0))

\* The wait ending as soon as one child is done.
ConvergedSome(t) == \E i \in 1..Len(spawned[t]) : workers_done(spawned[t][i])

\* The condition of the while loop of analyse, negated.
Converged(t) == \A i \in 1..Len(spawned[t]) : workers_done(spawned[t][i])

\* The wait ends and analyse returns; the runner marks the Report finished.
AnalyseConverged(t) ==
    /\ t \in tasks
    /\ pc[t] = "waiting"
    /\ Converged(t)
    /\ storage' = [storage EXCEPT ![t]["extractor"] = Finished(Finalize(t, @))]
    /\ LET children == { spawned[t][i] : i \in 1..Len(spawned[t]) }
       IN  /\ _status' = [c \in TaskIds |-> IF c \in children THEN status(c) ELSE _status[c]]
           /\ lastRead' = [c \in TaskIds |-> IF c \in children THEN status(c) ELSE lastRead[c]]
    /\ pc' = [pc EXCEPT ![t] = "returned"]
    /\ UNCHANGED << tasks, parent, file, disabled_workers, spawned, extractedOf,
                    task_password, settings, references, enqueued, extracted_dir,
                    origin, observables >>

-----------------------------------------------------------------------------
(* The files and settings the specifications draw from.                    *)

\* An archive member or attachment: its decompressed size, whether it is a
\* directory, whether it is encrypted (with which password, AES or not),
\* whether its data is corrupt (reading it raises), whether its name puts
\* it in a subdirectory, whether making a child Task of it raises, the
\* uncompressed size the container declares for it, and the file its bytes
\* are.
Entry(is_dir, encrypted, pwd, aes, corrupt, content) ==
    [size |-> content.size, is_dir |-> is_dir, encrypted |-> encrypted, pwd |-> pwd,
     aes |-> aes, corrupt |-> corrupt, nested |-> FALSE, new_task_raises |-> FALSE,
     declared |-> content.size, content |-> content]

\* zip_passwords of the settings; 3 is a password not in the list.
ZipPasswords == << 1, 2 >>

DefaultSettings == Settings(MaxFilesSetting, Ceiling, FALSE, ZipPasswords)

\* Members holding a plain file: small, of exactly the ceiling, above it.
PlainEntries ==
    { Entry(FALSE, FALSE, 0, FALSE, FALSE, PlainFile(FALSE, sz)) : sz \in {1, Ceiling, Ceiling + 1} }

\* The members of the archives of SpecExtract: plain files, a directory,
\* an encrypted member above the ceiling that no configured password
\* opens, and a small member whose data is corrupt.
EntryKinds ==
    PlainEntries \cup
    { Entry(TRUE, FALSE, 0, FALSE, FALSE, PlainFile(FALSE, 0)),
      Entry(FALSE, TRUE, 3, FALSE, FALSE, PlainFile(FALSE, Ceiling + 1)),
      Entry(FALSE, FALSE, 0, FALSE, TRUE, PlainFile(FALSE, 1)) }

\* Members only the zip archives of SpecExtract have: a small member
\* encrypted with the first configured password, AES and legacy.
ZipOnlyKinds ==
    { Entry(FALSE, TRUE, ZipPasswords[1], a, FALSE, PlainFile(FALSE, 1)) : a \in BOOLEAN }

\* A member only the 7z archives of SpecExtract have: a small file in a
\* subdirectory of the archive.
SevenZipOnlyKinds ==
    { [Entry(FALSE, FALSE, 0, FALSE, FALSE, PlainFile(FALSE, 1)) EXCEPT !.nested = TRUE] }

SeqsUpTo(S, n) == UNION { [1..k -> S] : k \in 0..n }

ArchiveMimes ==
    {ZipMime, SevenZipMime, RarMime, TarMime, IsoMime, "application/java-archive"}
    \cup StreamMimes

\* The archives of SpecExtract: every MIME type of the dispatch (and one it
\* does not know), named *.zip so that File.type is ARC.
Archives ==
    { File(m, ".zip", FALSE, 1, es) : m \in ArchiveMimes \ StreamMimes,
                                      es \in SeqsUpTo(EntryKinds, MaxEntries) }
    \cup { File(ZipMime, ".zip", FALSE, 1, es) :
               es \in SeqsUpTo(EntryKinds \cup ZipOnlyKinds, MaxEntries) }
    \cup { File(SevenZipMime, ".zip", FALSE, 1, es) :
               es \in SeqsUpTo(EntryKinds \cup SevenZipOnlyKinds, MaxEntries) }
    \cup { File(m, ".zip", FALSE, 1, << e >>) :
               m \in StreamMimes, e \in EntryKinds \ { k \in EntryKinds : k.is_dir \/ k.encrypted } }

\* A member of a container that holds the file c.
Holding(c) == Entry(FALSE, FALSE, 0, FALSE, FALSE, c)

Zip(contents) ==
    File(ZipMime, ".zip", FALSE, 1, [i \in 1..Len(contents) |-> Holding(contents[i])])

Eml(contents) ==
    File("message/rfc822", ".eml", FALSE, 1, [i \in 1..Len(contents) |-> Holding(contents[i])])

\* An Outlook message with the given attachments.
Msg(contents) ==
    File("application/vnd.ms-outlook", ".msg", FALSE, 1,
         [i \in 1..Len(contents) |-> Holding(contents[i])])

\* The attachments of the mails of SpecExtract: a text file, and one on
\* which the loop creating the child Tasks raises.
MailAttachments ==
    { Holding(PlainFile(FALSE, 1)),
      [Holding(PlainFile(FALSE, 1)) EXCEPT !.corrupt = TRUE] }

\* The mails of SpecExtract: emails and messages of up to two attachments.
Mails ==
    { [m EXCEPT !.entries = es] :
          m \in {Eml(<<>>), Msg(<<>>)}, es \in SeqsUpTo(MailAttachments, 2) }

-----------------------------------------------------------------------------
(* Spec: one Task object from its construction on.                         *)


Init ==
    /\ tasks = {1}
    /\ parent = [t \in TaskIds |-> NoTask]
    /\ \E d \in BOOLEAN :
          /\ file = [t \in TaskIds |-> IF t = 1 THEN PlainFile(d, 1) ELSE NoFile]
          /\ _status = [t \in TaskIds |->
                           IF t = 1 THEN InitialStatus(PlainFile(d, 1)) ELSE "WAITING"]
    /\ \E dw \in SUBSET Workers :
          disabled_workers = [t \in TaskIds |-> dw]
    /\ storage = [t \in TaskIds |-> [w \in Workers |-> NoReport]]
    /\ lastRead = [t \in TaskIds |-> None]
    /\ pc = [t \in TaskIds |-> "idle"]
    /\ spawned = [t \in TaskIds |-> <<>>]
    /\ extractedOf = [t \in TaskIds |-> <<>>]
    /\ task_password = [t \in TaskIds |-> 0]
    /\ references = {}
    /\ extracted_dir = [t \in TaskIds |-> FALSE]
    /\ origin = [t \in TaskIds |-> NoTask]
    /\ observables = [t \in TaskIds |-> <<>>]
    /\ enqueued = [t \in TaskIds |-> IF t = 1 THEN 1 ELSE 0]
    /\ settings = DefaultSettings

Next ==
    \/ \E w \in Workers : RunnerStart(1, w)
    \/ \E w \in Workers, st \in WorkerOutcomes : RunnerFinish(1, w, st)
    \/ \E w \in Workers : ManualRun(1, w)
    \/ ReadStatus(1)
    \/ \E st \in OperatorStatuses : WriteStatus(1, st)

Spec == Init /\ [][Next]_vars


-----------------------------------------------------------------------------
(* SpecExtract: the Extractor on one archive or mail and on the child      *)
(* Tasks it spawns (the other workers are disabled for the submission).    *)

InitExtract ==
    /\ tasks = {1}
    /\ parent = [t \in TaskIds |-> NoTask]
    /\ \E f \in Archives \cup Mails :
          file = [t \in TaskIds |-> IF t = 1 THEN f ELSE NoFile]
    /\ _status = [t \in TaskIds |-> "WAITING"]
    /\ disabled_workers = [t \in TaskIds |-> Workers \ {"extractor"}]
    /\ storage = [t \in TaskIds |-> [w \in Workers |-> NoReport]]
    /\ lastRead = [t \in TaskIds |-> None]
    /\ pc = [t \in TaskIds |-> "idle"]
    /\ spawned = [t \in TaskIds |-> <<>>]
    /\ extractedOf = [t \in TaskIds |-> <<>>]
    /\ task_password = [t \in TaskIds |-> 0]
    /\ references = {}
    /\ extracted_dir = [t \in TaskIds |-> FALSE]
    /\ origin = [t \in TaskIds |-> NoTask]
    /\ observables = [t \in TaskIds |-> <<>>]
    /\ enqueued = [t \in TaskIds |-> IF t = 1 THEN 1 ELSE 0]
    /\ \E mf \in 1..MaxFilesSetting, err \in BOOLEAN :
          settings = Settings(mf, Ceiling, err, ZipPasswords)

NextExtract ==
    \/ \E t \in TaskIds : AnalyseBegin(t)
    \/ \E t \in TaskIds : AnalyseConverged(t)

SpecExtract == InitExtract /\ [][NextExtract]_vars

-----------------------------------------------------------------------------
(* SpecConv: a submission, its recursively spawned child Tasks, and the    *)
(* pool of Extractor instances.                                            *)

\* The containers holding files of S: archives of up to two members, mails
\* of up to one attachment.
ContainersOf(S) ==
    { Zip(cs) : cs \in SeqsUpTo(S, 2) } \cup { Eml(cs) : cs \in SeqsUpTo(S, 1) }

Depth0 == { PlainFile(FALSE, 1) }
Depth1 == Depth0 \cup ContainersOf(Depth0)
Depth2 == Depth1 \cup ContainersOf(Depth1)
Depth3 == Depth2 \cup { Zip(<< f >>) : f \in Depth2 }

\* The Tasks a submission of f gives rise to at most.
RECURSIVE TaskCount(_)
RECURSIVE TaskCountFrom(_, _)
TaskCountFrom(es, i) ==
    IF i > Len(es) THEN 0 ELSE TaskCount(es[i].content) + TaskCountFrom(es, i + 1)
TaskCount(f) == 1 + TaskCountFrom(f.entries, 1)

Submissions == { f \in Depth3 : TaskCount(f) <= MaxTasks }

\* The statuses the other workers end with in SpecConv.
ConvOutcomes == {"CLEAN", "ALERT"}

InitConv ==
    /\ tasks = {1}
    /\ parent = [t \in TaskIds |-> NoTask]
    /\ \E f \in Submissions : file = [t \in TaskIds |-> IF t = 1 THEN f ELSE NoFile]
    /\ _status = [t \in TaskIds |-> "WAITING"]
    /\ disabled_workers = [t \in TaskIds |-> {"yara"}]
    /\ storage = [t \in TaskIds |-> [w \in Workers |-> NoReport]]
    /\ lastRead = [t \in TaskIds |-> None]
    /\ pc = [t \in TaskIds |-> "idle"]
    /\ spawned = [t \in TaskIds |-> <<>>]
    /\ extractedOf = [t \in TaskIds |-> <<>>]
    /\ task_password = [t \in TaskIds |-> 0]
    /\ references = {}
    /\ extracted_dir = [t \in TaskIds |-> FALSE]
    /\ origin = [t \in TaskIds |-> NoTask]
    /\ observables = [t \in TaskIds |-> <<>>]
    /\ enqueued = [t \in TaskIds |-> IF t = 1 THEN 1 ELSE 0]
    /\ settings = DefaultSettings

NextConv ==
    \/ \E t \in TaskIds : AnalyseBegin(t)
    \/ \E t \in TaskIds : AnalyseConverged(t)
    \/ \E t \in TaskIds, w \in Workers \ {"extractor"} : RunnerStart(t, w)
    \/ \E t \in TaskIds, w \in Workers \ {"extractor"}, st \in ConvOutcomes :
          RunnerFinish(t, w, st)

SpecConv == InitConv /\ [][NextConv]_vars

-----------------------------------------------------------------------------
(* Properties of the aggregation, under Spec.                              *)

\* The statuses of the finished Reports among rs.
FinishedStatuses(rs) == { rs[i].status : i \in { j \in 1..Len(rs) : rs[j].is_done } }

\* The statuses among them that are final whatever the other workers say.
FinalCarried(rs) == FinishedStatuses(rs) \cap {"DELETED", "ERROR", "ALERT", "WARN"}

\* The aggregate over finished Reports: CLEAN when all are CLEAN, the
\* maximum rank otherwise.
Aggregate(rs) ==
    IF FinishedStatuses(rs) \subseteq {"CLEAN"} THEN "CLEAN"
    ELSE MaxStatus(FinishedStatuses(rs))

\* rs iterated in the order p (a permutation of its indices).
Permuted(rs, p) == [i \in 1..Len(rs) |-> rs[p[i]]]

\* C1: a read of Task.status made when every enabled worker's Report is
\* finished (and that recomputes, the field holding no final value) returns
\* CLEAN if all Reports are CLEAN and the maximum-rank status among the
\* Reports otherwise.
C1_AggregationIsMaximum ==
    [][\A t \in tasks :
          (ReadStatus(t) /\ workers_done(t) /\ _status[t] \notin StoredFinal)
              => lastRead'[t] = Aggregate(reports(t))]_vars

\* C6: a read made while some finished Report carries DELETED, ERROR, ALERT
\* or WARN returns the highest such value, other workers finished or not.
C6_FrozenAtHighestFinal ==
    [][\A t \in tasks :
          (ReadStatus(t) /\ FinalCarried(reports(t)) # {})
              => lastRead'[t] = MaxStatus(FinalCarried(reports(t)))]_vars

\* C7: a read made while an enabled worker's Report is unfinished and no
\* finished Report carries a final status returns WAITING.
C7_UnfinishedReadsWaiting ==
    [][\A t \in tasks :
          (ReadStatus(t) /\ ~workers_done(t) /\ FinalCarried(reports(t)) = {})
              => lastRead'[t] = "WAITING"]_vars

\* C8: the status computed from the Reports is the same for every order in
\* which the Reports are iterated.
C8_OrderIndependent ==
    \A t \in tasks :
        LET rs == reports(t)
        IN  \A p \in Permutations(1..Len(rs)) :
                StatusOf(_status[t], Permuted(rs, p)) = StatusOf(_status[t], rs)

\* C9: every read of Task.status returns what the Task's current Reports
\* aggregate to (the recomputation, not a value left by an earlier read or
\* write of the field).
C9_ReadIsRecomputed ==
    [][\A t \in tasks :
          ReadStatus(t) => lastRead'[t] = StatusOf("WAITING", reports(t))]_vars

\* The member names Task refers to (task.py: __init__, status).
TaskStatusNames == {"WAITING", "DELETED", "ERROR", "ALERT", "WARN", "SUCCESS"}

\* The member names the workers refer to (extractor.py, observables.py,
\* yara_signature_base.py, mwdb.py, comodo.py).
WorkerStatusNames == {"NOTAPPLICABLE", "RUNNING", "ERROR", "CLEAN", "WARN", "ALERT"}

\* The rank order the enumeration is documented with.
DocumentedOrder ==
    << "WAITING", "RUNNING", "DELETED", "NOTAPPLICABLE", "MANUAL", "UNKNOWN",
       "DISABLED", "ERROR", "CLEAN", "WARN", "ALERT", "OVERWRITE" >>

\* C19: the documented statuses are members of Status in the documented
\* rank order, and every status Task and the workers refer to, or that a
\* Report or a Task holds, is a member of Status.
C19_StatusEnumeration ==
    /\ \A i, j \in 1..Len(DocumentedOrder) :
          /\ DocumentedOrder[i] \in Status
          /\ i < j => Rank(DocumentedOrder[i]) < Rank(DocumentedOrder[j])
    /\ \A t \in tasks :
          /\ _status[t] \in Status
          /\ \A i \in 1..Len(reports(t)) : reports(t)[i].status \in Status
    /\ WorkerStatusNames \subseteq Status
    /\ TaskStatusNames \subseteq Status

\* C20: a read of Task.status made when the field holds OVERWRITE, as an
\* operator set it, returns OVERWRITE.
C20_OverwriteDominates ==
    [][\A t \in tasks :
          (ReadStatus(t) /\ _status[t] = "OVERWRITE")
              => lastRead'[t] = "OVERWRITE"]_vars

-----------------------------------------------------------------------------
(* Properties of the convergence, under SpecConv.                          *)

\* The child Tasks analyse spawned for the Task.
Children(t) == { spawned[t][i] : i \in 1..Len(spawned[t]) }

\* C2: in a run of analyse that spawned at least one child Task, the step
\* that assigns the Extractor Report its final status is taken only when
\* every spawned child Task has workers_done (each of the child's enabled
\* workers, its own Extractor included, has a finished Report).
C2_FinalAfterChildren ==
    [][\A t \in tasks :
          (spawned[t] # <<>> /\ storage'[t]["extractor"] # storage[t]["extractor"])
              => \A c \in Children(t) :
                    /\ workers_done(c)
                    /\ HasReport(c, "extractor")
                    /\ storage[c]["extractor"].is_done]_vars

\* The submission's Extractor has returned, and one of its children had
\* children of its own to wait for.
C2_Witness ==
    /\ pc[1] = "returned"
    /\ \E c \in Children(1) : spawned[c] # <<>> /\ pc[c] = "returned"

\* C3: with the fixed pool of Extractor instances, as long as some Task has
\* an unfinished worker a step is possible: no state is reached where
\* parents wait for children whose workers can no longer be run.
C3_WaitNeverStalls ==
    (\E t \in tasks : ~workers_done(t)) => ENABLED NextConv

\* C10: once analyse has returned for a Task with at least one child, the
\* Extractor Report's status is the maximum, in the order of Status, of the
\* statuses of the child Tasks.
C10_StatusIsChildrenMax ==
    \A t \in tasks :
        (pc[t] = "returned" /\ spawned[t] # <<>>)
            => LET st == storage[t]["extractor"].status
               IN  /\ \E c \in Children(t) : status(c) = st
                   /\ \A c \in Children(t) : Rank(status(c)) <= Rank(st)

\* The submission's Extractor has returned with two children, the second of
\* a higher status than the first.
C10_Witness ==
    /\ pc[1] = "returned"
    /\ Len(spawned[1]) = 2
    /\ Rank(status(spawned[1][1])) < Rank(status(spawned[1][2]))

\* The Tasks spawned from the Task, directly or through its descendants.
RECURSIVE DescendantsWithin(_, _)
DescendantsWithin(t, n) ==
    IF n = 0 THEN {}
    ELSE Children(t) \cup UNION { DescendantsWithin(c, n - 1) : c \in Children(t) }

Descendants(t) == DescendantsWithin(t, MaxTasks)

\* The statuses of the Reports of the enabled workers of the Tasks in S.
ReportStatuses(S) ==
    UNION { { reports(c)[i].status : i \in 1..Len(reports(c)) } : c \in S }

\* C11: once the outermost Extractor of a chain nested two deep or more has
\* returned, every worker of every descendant Task has finished and the
\* outermost Extractor Report's status is the maximum of the statuses of
\* all Reports of all descendant Tasks.
C11_NestedMaximum ==
    (pc[1] = "returned" /\ \E c \in Children(1) : spawned[c] # <<>>)
        => /\ \A d \in Descendants(1) : workers_done(d)
           /\ storage[1]["extractor"].status = MaxStatus(ReportStatuses(Descendants(1)))

\* The payloads analyse makes child Tasks of: the extracted files of an
\* archive, the attachments of an email or message (those the loop gets to
\* when it raises on one).
PayloadsOf(t) ==
    IF is_archive(file[t]) THEN extractedOf[t]
    ELSE IF is_eml(file[t]) \/ is_msg(file[t]) THEN ReadablePrefix(file[t].entries)
    ELSE <<>>

\* C18: once analyse has spawned the children of a Task there is exactly
\* one child Task per payload, in order, holding the payload's file, with
\* the Task as parent and the Task's disabled workers, recorded as
\* extracted from the Task and enqueued once; and no Task other than the
\* submission exists that was not spawned that way.
C18_FanOut ==
    /\ \A t \in tasks :
          pc[t] # "idle"
              => /\ Len(spawned[t]) = Len(PayloadsOf(t))
                 /\ \A i, j \in 1..Len(spawned[t]) : spawned[t][i] = spawned[t][j] => i = j
                 /\ \A i \in 1..Len(spawned[t]) :
                       LET c == spawned[t][i]
                       IN  /\ c \in tasks
                           /\ file[c] = PayloadsOf(t)[i].content
                           /\ parent[c] = t
                           /\ disabled_workers[c] = disabled_workers[t]
                           /\ << t, c >> \in references
                           /\ enqueued[c] = 1
    /\ \A c \in tasks \ {1} :
          /\ parent[c] \in tasks
          /\ pc[parent[c]] # "idle"
          /\ c \in Children(parent[c])
    /\ \A r \in references : r[2] \in Children(r[1])

\* A child Task of the submission has spawned a child of its own, and the
\* submission has two children.
C18_Witness ==
    /\ Len(spawned[1]) = 2
    /\ \E c \in Children(1) : pc[c] # "idle" /\ spawned[c] # <<>>

-----------------------------------------------------------------------------
(* Properties of the extraction bounds, under SpecExtract.                 *)

\* The Extractor Report of the Task.
ExtractorReport(t) == storage[t]["extractor"]

\* C4: whatever the handler, the list of extracted files analyse gets back
\* has at most max_files_in_archive entries.
C4_CountBounded ==
    \A t \in tasks :
        pc[t] # "idle" => Len(extractedOf[t]) <= settings.max_files_in_archive

\* The members of the Task's archive above the ceiling.
Oversize(t) ==
    { i \in 1..Len(file[t].entries) :
          /\ ~file[t].entries[i].is_dir
          /\ file[t].entries[i].size > settings.max_extracted_filesize }

\* The Report has a detail recording a size overflow.
OverflowRecorded(rep) ==
    \E j \in 1..Len(rep.details) :
        rep.details[j].msg \in {"Skipping file, too big", "File too big"}

\* Nothing above the ceiling is in the extracted list or in a child Task.
NothingOversizeOut(t) ==
    /\ \A j \in 1..Len(extractedOf[t]) :
          extractedOf[t][j].size <= settings.max_extracted_filesize
    /\ \A c \in Children(t) : file[c].size <= settings.max_extracted_filesize

BoundExceeded(rep) ==
    \E j \in 1..Len(rep.details) :
        rep.details[j].msg \in {"Too many files in the archive",
                                "Skipping file, too big", "File too big"}

\* C12: when analyse has returned from a run in which the count bound or
\* the size bound was exceeded, the Extractor Report's status is ERROR if
\* max_is_error is set, and ALERT or WARN otherwise.
C12_OverflowPolicy ==
    \A t \in tasks :
        (pc[t] = "returned" /\ BoundExceeded(ExtractorReport(t)))
            => IF settings.max_is_error
               THEN ExtractorReport(t).status = "ERROR"
               ELSE ExtractorReport(t).status \in {"ALERT", "WARN"}

\* The Task's file is a zip with more entries than max_files_in_archive,
\* the first max_files_in_archive of them plain files within the ceiling.
ZipOverCount(t) ==
    /\ file[t].mime_type = ZipMime
    /\ Len(file[t].entries) > settings.max_files_in_archive
    /\ \A i \in 1..settings.max_files_in_archive :
          /\ ~file[t].entries[i].is_dir
          /\ ~file[t].entries[i].encrypted
          /\ ~file[t].entries[i].corrupt
          /\ file[t].entries[i].size <= settings.max_extracted_filesize

\* The Report has the detail of the count bound, citing n and the limit.
CitesCount(rep, n, limit) ==
    \E j \in 1..Len(rep.details) :
        /\ rep.details[j].msg = "Too many files in the archive"
        /\ rep.details[j].n = n
        /\ rep.details[j].limit = limit

\* C13: a zip with N > max_files_in_archive entries (the first
\* max_files_in_archive of them extractable) has, once analyse has
\* returned, exactly max_files_in_archive child Tasks, a Report with the
\* configured overflow severity, and a detail citing N and the limit.
C13_ZipOverCount ==
    \A t \in tasks :
        (pc[t] = "returned" /\ ZipOverCount(t))
            => /\ Len(spawned[t]) = settings.max_files_in_archive
               /\ CitesCount(ExtractorReport(t), Len(file[t].entries),
                             settings.max_files_in_archive)
               /\ ExtractorReport(t).status = OverflowStatus(settings)

\* The Task's archive has, within the count bound, an encrypted entry (zip,
\* rar) or an encrypted header (7z: its first entry) that no candidate
\* password decrypts.
NoCandidateOpens(t) ==
    LET es == file[t].entries
        locked(i) == es[i].encrypted /\ \A j \in 1..Len(passwords(t)) : passwords(t)[j] # es[i].pwd
    IN  \/ /\ file[t].mime_type \in {ZipMime, RarMime}
           /\ \E i \in 1..Len(es) : i <= settings.max_files_in_archive /\ locked(i)
        \/ /\ file[t].mime_type = SevenZipMime
           /\ Len(es) > 0 /\ locked(1)

\* The Report has a detail recording the failure to decrypt.
FailureRecorded(rep) ==
    \E j \in 1..Len(rep.details) :
        rep.details[j].msg \in {"File encrypted and unable to find password",
                                "Encrypted archive, unable to find password",
                                "Unable to extract"}

\* C14: when no candidate password decrypts an encrypted entry or header of
\* the archive, the Report analyse returns has status WARN, a detail
\* recording the failure and the no_password extra.
C14_CredentialExhaustion ==
    \A t \in tasks :
        (pc[t] = "returned" /\ is_archive(file[t]) /\ NoCandidateOpens(t))
            => /\ ExtractorReport(t).status = "WARN"
               /\ FailureRecorded(ExtractorReport(t))
               /\ "no_password" \in ExtractorReport(t).extras

\* The handler the Task's archive is dispatched to raises.
HandlerRaises(t) ==
    /\ is_archive(file[t])
    /\ Dispatch(settings, passwords(t), file[t], Report("RUNNING", FALSE, <<>>, {})).raised

\* C15: when the format handler raises on the Task's archive (corrupt data,
\* an entry the set password does not open, an unsupported MIME type),
\* analyse spawns no child Task and returns a Report with status WARN, at
\* least one detail and the no_password extra.
C15_StructuralFailure ==
    \A t \in tasks :
        (pc[t] # "idle" /\ HandlerRaises(t))
            => /\ spawned[t] = <<>>
               /\ "no_password" \in ExtractorReport(t).extras
               /\ Len(ExtractorReport(t).details) >= 1
               /\ pc[t] = "returned" => /\ ExtractorReport(t).status = "WARN"
                                        /\ ExtractorReport(t).is_done

\* analyse has returned from a tar whose first member is extractable and
\* whose second member is corrupt.
C15_Witness ==
    /\ pc[1] = "returned"
    /\ HandlerRaises(1)
    /\ file[1].mime_type = TarMime
    /\ Len(file[1].entries) >= 2
    /\ ~file[1].entries[1].is_dir /\ file[1].entries[1].size < settings.max_extracted_filesize
    /\ ~file[1].entries[1].corrupt
    /\ file[1].entries[2].corrupt

\* The Report has the detail of the empty archive.
EmptinessRecorded(rep) ==
    \E j \in 1..Len(rep.details) : rep.details[j].msg = "Looks like the archive is empty"

\* C16 as stated: when analyse has returned from a container (archive,
\* email or message) without spawning a child Task, the Report's status is
\* WARN and it has an explanatory detail.
C16_EmptyContainerWarns ==
    \A t \in tasks :
        (/\ pc[t] = "returned"
         /\ is_archive(file[t]) \/ is_eml(file[t]) \/ is_msg(file[t])
         /\ spawned[t] = <<>>)
            => /\ ExtractorReport(t).status = "WARN"
               /\ Len(ExtractorReport(t).details) >= 1

\* C16: when analyse has returned from an archive without spawning a child
\* Task, the Report's status is WARN and it has the detail of the empty
\* archive; from an email or message without attachment, the status is
\* NOTAPPLICABLE.
C16_EmptyArchiveWarns ==
    \A t \in tasks :
        (pc[t] = "returned" /\ spawned[t] = <<>>)
            => /\ is_archive(file[t])
                    => /\ ExtractorReport(t).status = "WARN"
                       /\ EmptinessRecorded(ExtractorReport(t))
               /\ ((is_eml(file[t]) \/ is_msg(file[t])) /\ file[t].entries = <<>>)
                    => ExtractorReport(t).status = "NOTAPPLICABLE"

\* analyse has returned from an archive that has members, none of which
\* was extracted, though the handler did not raise.
C16_Witness ==
    /\ pc[1] = "returned"
    /\ is_archive(file[1])
    /\ file[1].entries # <<>>
    /\ spawned[1] = <<>>
    /\ ~HandlerRaises(1)
    /\ ExtractorReport(1).is_done

\* A fresh RUNNING Report, as the runner hands it to analyse.
FreshReport == Report("RUNNING", FALSE, <<>>, {})

\* The first zip pass (legacy reader) on the Task's archive finds no
\* password and extracts nothing, and the second pass (AES-capable reader)
\* extracts files without a password failure or an exception.
AESRetrySucceeds(t) ==
    LET first == extract_zip(settings, passwords(t), file[t], FreshReport, "zipfile")
        second == extract_zip(settings, passwords(t), file[t], FreshReport, "pyzipper")
    IN  /\ file[t].mime_type = ZipMime /\ is_archive(file[t])
        /\ ~first.raised /\ first.extracted = <<>>
        /\ "no_password" \in first.report.extras
        /\ ~second.raised /\ second.extracted # <<>>
        /\ "no_password" \notin second.report.extras

\* The archive with its AES members encrypted the legacy way instead.
LegacyTwin(f) ==
    [f EXCEPT !.entries = [i \in 1..Len(f.entries) |-> [f.entries[i] EXCEPT !.aes = FALSE]]]

\* C17: when the first zip pass found no password and extracted nothing
\* and the second pass succeeded, the Report analyse returns has no
\* no_password extra and no detail of the password failure, its status is
\* WARN only if a child's is, and the extracted files are those the first
\* pass extracts from the same archive encrypted the legacy way.
C17_RetryLeavesNoTrace ==
    \A t \in tasks :
        (pc[t] = "returned" /\ AESRetrySucceeds(t))
            => /\ "no_password" \notin ExtractorReport(t).extras
               /\ ~FailureRecorded(ExtractorReport(t))
               /\ ExtractorReport(t).status = "WARN"
                     => \E c \in Children(t) : status(c) = "WARN"
               /\ LegacyTwin([file[t] EXCEPT !.entries = extractedOf[t]]).entries
                     = extract_zip(settings, passwords(t), LegacyTwin(file[t]),
                                   FreshReport, "zipfile").extracted
               /\ Len(spawned[t]) = Len(extractedOf[t])

\* analyse has returned from a zip whose first member is AES-encrypted with
\* a candidate password.
C17_Witness ==
    /\ pc[1] = "returned"
    /\ AESRetrySucceeds(1)
    /\ file[1].entries[1].aes
    /\ spawned[1] # <<>>

\* C21: the Report analyse has returned has at least one detail unless its
\* status is CLEAN.
C21_NonCleanHasDetail ==
    \A t \in tasks :
        (pc[t] = "returned" /\ ExtractorReport(t).status # "CLEAN")
            => Len(ExtractorReport(t).details) >= 1

\* The loop over the attachments of the Task's email or message raises.
AttachmentLoopRaises(t) ==
    /\ is_eml(file[t]) \/ is_msg(file[t])
    /\ \E i \in 1..Len(file[t].entries) : file[t].entries[i].corrupt

\* C22: when the unpacking of the attachments of an email or message
\* failed, the Report analyse returns has a status of failure (ERROR, WARN
\* or ALERT) and at least one detail.
C22_FailureConverted ==
    \A t \in tasks :
        (pc[t] = "returned" /\ AttachmentLoopRaises(t))
            => /\ ExtractorReport(t).status \in {"ERROR", "WARN", "ALERT"}
               /\ Len(ExtractorReport(t).details) >= 1

-----------------------------------------------------------------------------
(* SpecTimeout: the Extractor runs of a submission under the runner's      *)
(* wall-clock timeout.                                                     *)

\* The detail entry naming the timeout.
TimeoutDetail == Detail("timeout", 0, 0)

\* A Report the runner finalizes ERROR without saying why.
TimedOutSilent(rep) == SetStatus(rep, "ERROR")

\* The Report as the runner finalizes it when analyse exceeds the worker's
\* timeout: ERROR, with a detail naming the timeout.
TimedOut(rep) == add_details(SetStatus(rep, "ERROR"), TimeoutDetail)

\* The worker's timeout expires while analyse is in its wait: the runner
\* aborts analyse and finalizes the Report; the instance is free again.
AnalyseTimeout(t) ==
    /\ t \in tasks
    /\ pc[t] = "waiting"
    /\ storage' = [storage EXCEPT ![t]["extractor"] = Finished(TimedOut(@))]
    /\ pc' = [pc EXCEPT ![t] = "returned"]
    /\ UNCHANGED << tasks, parent, file, disabled_workers, _status, lastRead,
                    spawned, extractedOf, task_password, settings, references,
                    enqueued, extracted_dir,
                    origin, observables >>

\* A submission of SpecConv with only the Extractor enabled.
InitTimeout ==
    /\ tasks = {1}
    /\ parent = [t \in TaskIds |-> NoTask]
    /\ \E f \in Submissions : file = [t \in TaskIds |-> IF t = 1 THEN f ELSE NoFile]
    /\ _status = [t \in TaskIds |-> "WAITING"]
    /\ disabled_workers = [t \in TaskIds |-> Workers \ {"extractor"}]
    /\ storage = [t \in TaskIds |-> [w \in Workers |-> NoReport]]
    /\ lastRead = [t \in TaskIds |-> None]
    /\ pc = [t \in TaskIds |-> "idle"]
    /\ spawned = [t \in TaskIds |-> <<>>]
    /\ extractedOf = [t \in TaskIds |-> <<>>]
    /\ task_password = [t \in TaskIds |-> 0]
    /\ references = {}
    /\ extracted_dir = [t \in TaskIds |-> FALSE]
    /\ origin = [t \in TaskIds |-> NoTask]
    /\ observables = [t \in TaskIds |-> <<>>]
    /\ enqueued = [t \in TaskIds |-> IF t = 1 THEN 1 ELSE 0]
    /\ settings = DefaultSettings

NextTimeout ==
    \/ \E t \in TaskIds : AnalyseBegin(t)
    \/ \E t \in TaskIds : AnalyseConverged(t)
    \/ \E t \in TaskIds : AnalyseTimeout(t)

\* The timer of a waiting analyse runs on whatever else happens.
SpecTimeout ==
    /\ InitTimeout
    /\ [][NextTimeout]_vars
    /\ \A t \in TaskIds : WF_vars(AnalyseTimeout(t))

-----------------------------------------------------------------------------
(* Properties of the extracted content, under SpecExtract.                 *)

\* The number of elements of the sequence that are v.
CountIn(seq, v) == Cardinality({ i \in 1..Len(seq) : seq[i] = v })

\* The raw contents of the file members of the archive.
EntryContents(f) ==
    LET files == SelectSeq(f.entries, LAMBDA e : ~e.is_dir)
    IN  [i \in 1..Len(files) |-> files[i].content]

\* The contents of the child Tasks of the Task.
ChildContents(t) == [i \in 1..Len(spawned[t]) |-> file[spawned[t][i]]]

\* An archive of a type the dispatch has a handler for, with no encrypted
\* and no unreadable member, no member above the per-file ceiling and no
\* more members than max_files_in_archive.
WithinBounds(t) ==
    /\ is_archive(file[t])
    /\ file[t].mime_type \in {ZipMime, SevenZipMime, RarMime, TarMime, IsoMime} \cup StreamMimes
    /\ Len(file[t].entries) <= settings.max_files_in_archive
    /\ \A i \in 1..Len(file[t].entries) :
          /\ ~file[t].entries[i].encrypted
          /\ ~file[t].entries[i].corrupt
          /\ ~TooBig(settings, file[t].entries[i].size)

\* C24: once analyse has spawned the children of a non-encrypted archive
\* within the bounds, the child Tasks' contents are, as a multiset, the raw
\* contents of the archive's file members.
C24_ContentRoundTrip ==
    \A t \in tasks :
        (pc[t] # "idle" /\ WithinBounds(t))
            => \A v \in { file[c] : c \in tasks } \cup
                        { EntryContents(file[t])[i] : i \in 1..Len(EntryContents(file[t])) } :
                   CountIn(ChildContents(t), v) = CountIn(EntryContents(file[t]), v)

-----------------------------------------------------------------------------
(* SpecFile: one File object, its digests and its deletion.                *)

\* The digest of the content by the algorithm; a content is identified by
\* its length.
Digest(alg, content) == << alg, content >>

\* The fields of File holding the digests.
DigestFields == {"_md5", "_sha1", "_sha256"}

\* The arguments of File.__init__: whether the path exists, the deleted
\* flag, the digests and the size (None and 0 when not given), and the
\* content the file has or had (of length 0 for an empty file).
FileArgs ==
    UNION { [exists : BOOLEAN, deleted : BOOLEAN,
             md5 : {None, Digest("_md5", c)}, sha1 : {None, Digest("_sha1", c)},
             sha256 : {None, Digest("_sha256", c)}, size : {0, c}, content : {c}] :
            c \in 0..Ceiling + 1 }

\* self.deleted after make_bool(deleted) and the test of the path.
DeletedAtInit(a) == a.deleted \/ ~a.exists

\* File.__init__ raises: a deleted File without its three digests or
\* without its size.
NewFileRaises(a) ==
    /\ DeletedAtInit(a)
    /\ (a.md5 = None \/ a.sha1 = None \/ a.sha256 = None \/ a.size = 0)

\* The File that File.__init__ makes: the digests and the size are taken
\* from the arguments only when the File is deleted; the content is not
\* read.
NewFile(a) ==
    LET d == DeletedAtInit(a)
        f == PlainFile(d, a.content)
    IN  [mime_type |-> f.mime_type, suffix |-> f.suffix, deleted |-> d,
         size |-> f.size, entries |-> f.entries,
         on_disk |-> a.exists, data |-> FALSE,
         _md5 |-> IF d THEN a.md5 ELSE None,
         _sha1 |-> IF d THEN a.sha1 ELSE None,
         _sha256 |-> IF d THEN a.sha256 ELSE None,
         _size |-> IF d THEN a.size ELSE 0]

\* File.data can be had: it is cached, or the path can be opened.
Readable(f) == f.data \/ f.on_disk

\* File.data (a cached_property): the content is read from the path, once.
FileData(t) ==
    /\ t \in tasks
    /\ ~file[t].data
    /\ file[t].on_disk
    /\ file' = [file EXCEPT ![t].data = TRUE]
    /\ UNCHANGED << tasks, parent, disabled_workers, storage, _status, lastRead, pc,
                    spawned, extractedOf, task_password, settings, references,
                    enqueued, extracted_dir,
                    origin, observables >>

\* File.md5, File.sha1, File.sha256: computed from File.data when the field
\* is None, and kept.
FileDigest(t, field) ==
    /\ t \in tasks
    /\ file[t][field] = None
    /\ Readable(file[t])
    /\ file' = [file EXCEPT ![t][field] = Digest(field, file[t].size),
                            ![t].data = TRUE]
    /\ UNCHANGED << tasks, parent, disabled_workers, storage, _status, lastRead, pc,
                    spawned, extractedOf, task_password, settings, references,
                    enqueued, extracted_dir,
                    origin, observables >>

\* File.size: the length of File.data when the field is 0, and kept.
FileSize(t) ==
    /\ t \in tasks
    /\ file[t]._size = 0
    /\ Readable(file[t])
    /\ file' = [file EXCEPT ![t]._size = file[t].size, ![t].data = TRUE]
    /\ UNCHANGED << tasks, parent, disabled_workers, storage, _status, lastRead, pc,
                    spawned, extractedOf, task_password, settings, references,
                    enqueued, extracted_dir,
                    origin, observables >>

\* File.delete(): the directory of the file is removed and the flag set.
FileDelete(t) ==
    /\ t \in tasks
    /\ file' = [file EXCEPT ![t].on_disk = FALSE, ![t].deleted = TRUE]
    /\ UNCHANGED << tasks, parent, disabled_workers, storage, _status, lastRead, pc,
                    spawned, extractedOf, task_password, settings, references,
                    enqueued, extracted_dir,
                    origin, observables >>

InitFile ==
    /\ tasks = {1}
    /\ parent = [t \in TaskIds |-> NoTask]
    /\ \E a \in FileArgs :
          /\ ~NewFileRaises(a)
          /\ file = [t \in TaskIds |-> IF t = 1 THEN NewFile(a) ELSE NoFile]
          /\ _status = [t \in TaskIds |->
                           IF t = 1 THEN InitialStatus(NewFile(a)) ELSE "WAITING"]
    /\ disabled_workers = [t \in TaskIds |-> {}]
    /\ storage = [t \in TaskIds |-> [w \in Workers |-> NoReport]]
    /\ lastRead = [t \in TaskIds |-> None]
    /\ pc = [t \in TaskIds |-> "idle"]
    /\ spawned = [t \in TaskIds |-> <<>>]
    /\ extractedOf = [t \in TaskIds |-> <<>>]
    /\ task_password = [t \in TaskIds |-> 0]
    /\ references = {}
    /\ extracted_dir = [t \in TaskIds |-> FALSE]
    /\ origin = [t \in TaskIds |-> NoTask]
    /\ observables = [t \in TaskIds |-> <<>>]
    /\ enqueued = [t \in TaskIds |-> IF t = 1 THEN 1 ELSE 0]
    /\ settings = DefaultSettings

NextFile ==
    \/ FileData(1)
    \/ \E field \in DigestFields : FileDigest(1, field)
    \/ FileSize(1)
    \/ FileDelete(1)

SpecFile == InitFile /\ [][NextFile]_vars

\* The digests and the size are in the fields of the File.
DigestsKept(f) == f._md5 # None /\ f._sha1 # None /\ f._sha256 # None /\ f._size # 0

\* C25: a File whose deleted flag is set has its three digests and its size
\* in its fields, so that they are had without reading the content.
C25_DeletedKeepsDigests ==
    \A t \in tasks : file[t].deleted => DigestsKept(file[t])

-----------------------------------------------------------------------------
(* SpecPassword: the Extractor on an archive with encrypted members, for a *)
(* Task with or without a password of its own.                             *)

\* The members of the archives of SpecPassword: a plain file, and a file
\* encrypted (legacy encryption) with the first or the second configured
\* password or with a password that is not configured.
PasswordKinds ==
    { Entry(FALSE, FALSE, 0, FALSE, FALSE, PlainFile(FALSE, 1)) } \cup
    { Entry(FALSE, TRUE, pw, FALSE, FALSE, PlainFile(FALSE, 1)) : pw \in 1..3 }

\* Archives of the three formats that can be encrypted.
EncryptedArchives ==
    { File(m, ".zip", FALSE, 1, es) :
          m \in {ZipMime, RarMime, SevenZipMime}, es \in SeqsUpTo(PasswordKinds, 2) }

\* task.password: none (0), a configured password, one that is not
\* configured.
TaskPasswords == {0, ZipPasswords[2], 3}

InitPassword ==
    /\ tasks = {1}
    /\ parent = [t \in TaskIds |-> NoTask]
    /\ \E f \in EncryptedArchives :
          file = [t \in TaskIds |-> IF t = 1 THEN f ELSE NoFile]
    /\ _status = [t \in TaskIds |-> "WAITING"]
    /\ disabled_workers = [t \in TaskIds |-> Workers \ {"extractor"}]
    /\ storage = [t \in TaskIds |-> [w \in Workers |-> NoReport]]
    /\ lastRead = [t \in TaskIds |-> None]
    /\ pc = [t \in TaskIds |-> "idle"]
    /\ spawned = [t \in TaskIds |-> <<>>]
    /\ extractedOf = [t \in TaskIds |-> <<>>]
    /\ \E pw \in TaskPasswords :
          task_password = [t \in TaskIds |-> IF t = 1 THEN pw ELSE 0]
    /\ references = {}
    /\ extracted_dir = [t \in TaskIds |-> FALSE]
    /\ origin = [t \in TaskIds |-> NoTask]
    /\ observables = [t \in TaskIds |-> <<>>]
    /\ enqueued = [t \in TaskIds |-> IF t = 1 THEN 1 ELSE 0]
    /\ \E mf \in 1..MaxFilesSetting, err \in BOOLEAN :
          settings = Settings(mf, Ceiling + 1, err, ZipPasswords)

NextPassword ==
    \/ \E t \in TaskIds : AnalyseBegin(t)
    \/ \E t \in TaskIds : AnalyseConverged(t)

SpecPassword == InitPassword /\ [][NextPassword]_vars

\* The candidate list the claim gives the Task.
ExpectedCandidates(t) ==
    IF task_password[t] # 0 THEN << task_password[t] >> ELSE settings.zip_passwords

InList(pw, list) == \E i \in 1..Len(list) : list[i] = pw

\* Every member of the archive is encrypted with the password pw, and the
\* archive is within the bounds of its handler.
AllEncryptedWith(t, pw) ==
    /\ file[t].entries # <<>>
    /\ \A i \in 1..Len(file[t].entries) :
          file[t].entries[i].encrypted /\ file[t].entries[i].pwd = pw
    /\ Len(file[t].entries) <= settings.max_files_in_archive
    /\ ~AtCeiling(settings, SumSizes(file[t].entries, 1))

\* C26: the candidates of a Task are its own password alone when it has
\* one, the configured list in its order otherwise; no encrypted member is
\* extracted with a password outside the candidates, an archive encrypted
\* with a candidate is extracted, and one encrypted with another password
\* is not.
C26_PasswordCandidates ==
    \A t \in tasks :
        (pc[t] # "idle" /\ is_archive(file[t]))
            => /\ passwords(t) = ExpectedCandidates(t)
               /\ \A i \in 1..Len(extractedOf[t]) :
                     extractedOf[t][i].encrypted
                         => InList(extractedOf[t][i].pwd, ExpectedCandidates(t))
               /\ \A pw \in 1..3 :
                     AllEncryptedWith(t, pw)
                         => IF InList(pw, ExpectedCandidates(t))
                            THEN extractedOf[t] = file[t].entries
                            ELSE /\ extractedOf[t] = <<>>
                                 /\ "no_password" \in ExtractorReport(t).extras

\* A Task with a password of its own on an archive encrypted with a
\* configured password that is not the Task's: nothing was extracted.
C26_Witness ==
    \E t \in tasks :
        /\ pc[t] # "idle"
        /\ task_password[t] = ZipPasswords[2]
        /\ AllEncryptedWith(t, ZipPasswords[1])
        /\ extractedOf[t] = <<>>

-----------------------------------------------------------------------------
(* SpecCleanup: the Extractor on an archive some of whose files cannot be  *)
(* made child Tasks of.                                                    *)

\* The members of the archives of SpecCleanup: a small file, one whose data
\* is corrupt, and one whose child Task cannot be made.
CleanupKinds ==
    { Entry(FALSE, FALSE, 0, FALSE, FALSE, PlainFile(FALSE, 1)),
      Entry(FALSE, FALSE, 0, FALSE, TRUE, PlainFile(FALSE, 1)),
      [Entry(FALSE, FALSE, 0, FALSE, FALSE, PlainFile(FALSE, 1))
           EXCEPT !.new_task_raises = TRUE] }

CleanupArchives ==
    { File(m, ".zip", FALSE, 1, es) :
          m \in {ZipMime, TarMime}, es \in SeqsUpTo(CleanupKinds, 2) }

InitCleanup ==
    /\ tasks = {1}
    /\ parent = [t \in TaskIds |-> NoTask]
    /\ \E f \in CleanupArchives :
          file = [t \in TaskIds |-> IF t = 1 THEN f ELSE NoFile]
    /\ _status = [t \in TaskIds |-> "WAITING"]
    /\ disabled_workers = [t \in TaskIds |-> Workers \ {"extractor"}]
    /\ storage = [t \in TaskIds |-> [w \in Workers |-> NoReport]]
    /\ lastRead = [t \in TaskIds |-> None]
    /\ pc = [t \in TaskIds |-> "idle"]
    /\ spawned = [t \in TaskIds |-> <<>>]
    /\ extractedOf = [t \in TaskIds |-> <<>>]
    /\ task_password = [t \in TaskIds |-> 0]
    /\ references = {}
    /\ extracted_dir = [t \in TaskIds |-> FALSE]
    /\ origin = [t \in TaskIds |-> NoTask]
    /\ observables = [t \in TaskIds |-> <<>>]
    /\ enqueued = [t \in TaskIds |-> IF t = 1 THEN 1 ELSE 0]
    /\ \E mf \in 1..MaxFilesSetting, err \in BOOLEAN :
          settings = Settings(mf, Ceiling, err, ZipPasswords)

NextCleanup ==
    \/ \E t \in TaskIds : AnalyseBegin(t)
    \/ \E t \in TaskIds : AnalyseConverged(t)

SpecCleanup == InitCleanup /\ [][NextCleanup]_vars

\* C27: when analyse has ended for an archive Task, whichever way, the
\* directory the archive was extracted to is no longer there.
C27_DestinationRemoved ==
    \A t \in tasks :
        (is_archive(file[t]) /\ pc[t] = "returned") => ~extracted_dir[t]

-----------------------------------------------------------------------------
(* Properties of the parent relation, under SpecConv.                      *)

\* The Tasks reached from the Task by following Task.parent.
RECURSIVE AncestorsWithin(_, _)
AncestorsWithin(t, n) ==
    IF n = 0 \/ parent[t] = NoTask THEN {}
    ELSE {parent[t]} \cup AncestorsWithin(parent[t], n - 1)

Ancestors(t) == AncestorsWithin(t, MaxTasks)

\* C28: no Task is its own ancestor by Task.parent, no Task is among the
\* Tasks its own analyse waits for, directly or through its descendants,
\* and a step of analyse only spawns Tasks that did not exist, each with the
\* spawning Task as parent.
C28_ParentAcyclic ==
    /\ [](\A t \in tasks :
             /\ t \notin Ancestors(t)
             /\ t \notin Descendants(t)
             /\ \A c \in Children(t) : parent[c] = t)
    /\ [][\A t \in TaskIds :
             spawned'[t] # spawned[t]
                 => \A i \in 1..Len(spawned'[t]) :
                        /\ spawned'[t][i] \notin tasks
                        /\ spawned'[t][i] \in tasks'
                        /\ \A j \in 1..Len(spawned'[t]) :
                              spawned'[t][i] = spawned'[t][j] => i = j]_vars

\* A chain of three Tasks: a child of a child of the submission.
C28_Witness ==
    \E t \in tasks :
        /\ parent[t] # NoTask
        /\ parent[parent[t]] # NoTask
        /\ Ancestors(t) = {parent[t], parent[parent[t]]}

-----------------------------------------------------------------------------
(* Properties of the status read as an operation, under Spec.              *)

\* C29: a read of Task.status changes no field of the Task and no Report.
C29_ReadHasNoEffect ==
    [][\A t \in tasks :
          ReadStatus(t) => (_status'[t] = _status[t] /\ storage' = storage)]_vars

-----------------------------------------------------------------------------
(* SpecDeclared: the Extractor on archives with a member that holds more   *)
(* than the container declares for it.                                     *)

\* The members of the archives of SpecDeclared: a small file, a file above
\* the ceiling, and a file above the ceiling for which the container
\* declares one byte.
DeclaredKinds ==
    { Entry(FALSE, FALSE, 0, FALSE, FALSE, PlainFile(FALSE, 1)),
      Entry(FALSE, FALSE, 0, FALSE, FALSE, PlainFile(FALSE, Ceiling + 1)),
      [Entry(FALSE, FALSE, 0, FALSE, FALSE, PlainFile(FALSE, Ceiling + 1))
           EXCEPT !.declared = 1] }

DeclaredArchives ==
    { File(m, ".zip", FALSE, 1, es) :
          m \in {ZipMime, RarMime, SevenZipMime}, es \in SeqsUpTo(DeclaredKinds, 2) }
    \cup { File("application/gzip", ".zip", FALSE, 1, << e >>) : e \in DeclaredKinds }

InitDeclared ==
    /\ tasks = {1}
    /\ parent = [t \in TaskIds |-> NoTask]
    /\ \E f \in DeclaredArchives :
          file = [t \in TaskIds |-> IF t = 1 THEN f ELSE NoFile]
    /\ _status = [t \in TaskIds |-> "WAITING"]
    /\ disabled_workers = [t \in TaskIds |-> Workers \ {"extractor"}]
    /\ storage = [t \in TaskIds |-> [w \in Workers |-> NoReport]]
    /\ lastRead = [t \in TaskIds |-> None]
    /\ pc = [t \in TaskIds |-> "idle"]
    /\ spawned = [t \in TaskIds |-> <<>>]
    /\ extractedOf = [t \in TaskIds |-> <<>>]
    /\ task_password = [t \in TaskIds |-> 0]
    /\ references = {}
    /\ extracted_dir = [t \in TaskIds |-> FALSE]
    /\ origin = [t \in TaskIds |-> NoTask]
    /\ observables = [t \in TaskIds |-> <<>>]
    /\ enqueued = [t \in TaskIds |-> IF t = 1 THEN 1 ELSE 0]
    /\ \E mf \in 1..MaxFilesSetting, err \in BOOLEAN :
          settings = Settings(mf, Ceiling, err, ZipPasswords)

NextDeclared ==
    \/ \E t \in TaskIds : AnalyseBegin(t)
    \/ \E t \in TaskIds : AnalyseConverged(t)

SpecDeclared == InitDeclared /\ [][NextDeclared]_vars

\* C30: whatever the container declares, no member whose decompressed
\* length is above the ceiling is in the extracted list or becomes a child
\* Task.
C30_DeclaredNotTrusted ==
    \A t \in tasks :
        pc[t] # "idle"
            => \A i \in 1..Len(extractedOf[t]) :
                   ~TooBig(settings, extractedOf[t][i].size)

-----------------------------------------------------------------------------
(* Properties of the size boundary, under SpecExtract.                     *)

\* The size the handler of the archive compares with the ceiling is, for
\* every member (for 7z: for the archive as a whole), at most the ceiling;
\* the archive has file members only, no more than max_files_in_archive,
\* none encrypted, unreadable or in a subdirectory.
AllWithinCeiling(t) ==
    /\ is_archive(file[t])
    /\ file[t].mime_type \in {ZipMime, SevenZipMime, RarMime, TarMime, IsoMime} \cup StreamMimes
    /\ file[t].entries # <<>>
    /\ Len(file[t].entries) <= settings.max_files_in_archive
    /\ \A i \in 1..Len(file[t].entries) :
          /\ ~file[t].entries[i].is_dir
          /\ ~file[t].entries[i].encrypted
          /\ ~file[t].entries[i].corrupt
          /\ ~file[t].entries[i].nested
          /\ file[t].entries[i].size <= settings.max_extracted_filesize
    /\ file[t].mime_type = SevenZipMime
          => SumSizes(file[t].entries, 1) <= settings.max_extracted_filesize

\* C31: whatever the handler, an archive whose members (for 7z: whose
\* total) are at most the ceiling, a member of exactly the ceiling
\* included, has every member extracted and no size overflow recorded.
C31_BoundaryUniform ==
    \A t \in tasks :
        (pc[t] # "idle" /\ AllWithinCeiling(t))
            => /\ extractedOf[t] = file[t].entries
               /\ ~OverflowRecorded(ExtractorReport(t))

-----------------------------------------------------------------------------
(* Properties of the zip retry, under SpecExtract.                         *)

\* The first zip pass (legacy reader) on the Task's archive ends on an
\* encrypted entry no candidate opened.
FirstPassFindsNoPassword(t) ==
    /\ is_archive(file[t])
    /\ file[t].mime_type = ZipMime
    /\ \E first \in { extract_zip(settings, passwords(t), file[t], FreshReport, "zipfile") } :
          ~first.raised /\ "no_password" \in first.report.extras

\* What a pass with the AES-capable reader extracts from the Task's
\* archive (nothing when it raises).
AESPassExtracts(t) ==
    CHOOSE x \in
        { IF second.raised THEN <<>> ELSE second.extracted :
          second \in { extract_zip(settings, passwords(t), file[t], FreshReport,
                                   "pyzipper") } } : TRUE

\* C32: when the first zip pass found no password, whatever it had
\* extracted before the encrypted entry, the extracted files analyse goes
\* on with are those of a second pass with the AES-capable reader.
C32_AESRetryAlways ==
    \A t \in tasks :
        (pc[t] # "idle" /\ FirstPassFindsNoPassword(t))
            => extractedOf[t] = AESPassExtracts(t)

-----------------------------------------------------------------------------
(* Properties of the password discovery, under SpecPassword.               *)

\* The passes analyse makes over the entries of the Task's zip or rar, each
\* with the library that reads it: for a zip the legacy pass and, when that
\* one extracted nothing, the pass with the AES-capable reader.
PassesOf(t) ==
    IF file[t].mime_type = RarMime
    THEN { [lib |-> "rarfile",
            pass |-> extract_rar(settings, passwords(t), file[t], FreshReport)] }
    ELSE UNION
         { { [lib |-> "zipfile", pass |-> first] } \cup
           ( IF first.raised \/ first.extracted # <<>> THEN {}
             ELSE { [lib |-> "pyzipper",
                     pass |-> extract_zip(settings, passwords(t), file[t],
                                          clear_details(clear_extras(first.report)),
                                          "pyzipper")] } ) :
           first \in { extract_zip(settings, passwords(t), file[t], FreshReport,
                                   "zipfile") } }

\* The numbers of the encrypted entries of the archive.
EncryptedEntries(f) == { i \in 1..Len(f.entries) : f.entries[i].encrypted }

\* The first encrypted entry of the archive (0: none).
FirstEncrypted(f) ==
    IF EncryptedEntries(f) = {} THEN 0
    ELSE CHOOSE i \in EncryptedEntries(f) : \A j \in EncryptedEntries(f) : i <= j

\* The probes of the pass are made on the first encrypted entry only, with
\* the candidates in list order; the first candidate that decrypts the
\* entry ends them and is the password set; when none decrypts it the pass
\* ends there, with nothing extracted from that entry on.
ProbeDiscipline(lib, pass, f, pwds, cfg) ==
    LET e == FirstEncrypted(f)
        n == Len(pass.probes)
        opens(j) == CanDecrypt(lib, f.entries[e], pass.probes[j][2])
    IN  /\ n > 0 => e # 0
        /\ (e # 0 /\ e <= cfg.max_files_in_archive /\ ~pass.raised) => n > 0
        /\ n <= Len(pwds)
        /\ \A j \in 1..n :
              /\ pass.probes[j][1] = e
              /\ pass.probes[j][2] = pwds[j]
              /\ opens(j) => (j = n /\ pass.password = pass.probes[j][2])
        /\ (n > 0 /\ \A j \in 1..n : ~opens(j))
              => /\ n = Len(pwds)
                 /\ pass.password = 0
                 /\ ~pass.raised
                 /\ "no_password" \in pass.report.extras
                 /\ \A k \in 1..Len(pass.extracted) :
                       \E i \in 1..(e - 1) : pass.extracted[k] = Written(f.entries[i])

\* C33: in every pass over a zip or rar, the candidates are probed in list
\* order against the first encrypted entry met and against no other; the
\* first that decrypts it is set as the archive's password; when none
\* decrypts it the enumeration stops at that entry.
C33_ProbeFirstEncryptedOnly ==
    \A t \in tasks :
        (pc[t] # "idle" /\ is_archive(file[t]) /\ file[t].mime_type \in {ZipMime, RarMime})
            => \A p \in PassesOf(t) :
                   ProbeDiscipline(p.lib, p.pass, file[t], passwords(t), settings)

\* Both entries of the archive are encrypted with the second configured
\* password: the first was probed with both candidates, the second with
\* none, and both were extracted.
C33_Witness ==
    \E t \in tasks :
        /\ pc[t] # "idle"
        /\ file[t].mime_type \in {ZipMime, RarMime}
        /\ task_password[t] = 0
        /\ AllEncryptedWith(t, ZipPasswords[2])
        /\ Len(file[t].entries) = 2
        /\ Len(extractedOf[t]) = 2
        /\ \E p \in PassesOf(t) :
              p.pass.probes = << << 1, ZipPasswords[1] >>, << 1, ZipPasswords[2] >> >>

-----------------------------------------------------------------------------
(* SpecDispatch: the Extractor on containers of every supported type,      *)
(* under file names of several extensions.                                 *)

\* The MIME types of the container subtypes with a handler.
SupportedMimes == {ZipMime, SevenZipMime, RarMime, TarMime, IsoMime} \cup StreamMimes

\* The suffixes of the file names of SpecDispatch: of archives, of disk
\* images and binaries, and one that File.TYPE_EXTENSIONS does not have.
DispatchSuffixes == {".zip", ".tar", ".rar", ".iso", ".bin", ".dat"}

\* Containers of one small file (and, when the format has members, of two).
DispatchFiles ==
    { File(m, sfx, FALSE, 1, << Holding(PlainFile(FALSE, 1)) >>) :
          m \in SupportedMimes, sfx \in DispatchSuffixes }
    \cup { File(m, sfx, FALSE, 1,
                << Holding(PlainFile(FALSE, 1)), Holding(PlainFile(FALSE, 1)) >>) :
               m \in SupportedMimes \ StreamMimes, sfx \in DispatchSuffixes }

InitDispatch ==
    /\ tasks = {1}
    /\ parent = [t \in TaskIds |-> NoTask]
    /\ \E f \in DispatchFiles :
          file = [t \in TaskIds |-> IF t = 1 THEN f ELSE NoFile]
    /\ _status = [t \in TaskIds |-> "WAITING"]
    /\ disabled_workers = [t \in TaskIds |-> Workers \ {"extractor"}]
    /\ storage = [t \in TaskIds |-> [w \in Workers |-> NoReport]]
    /\ lastRead = [t \in TaskIds |-> None]
    /\ pc = [t \in TaskIds |-> "idle"]
    /\ spawned = [t \in TaskIds |-> <<>>]
    /\ extractedOf = [t \in TaskIds |-> <<>>]
    /\ task_password = [t \in TaskIds |-> 0]
    /\ references = {}
    /\ extracted_dir = [t \in TaskIds |-> FALSE]
    /\ origin = [t \in TaskIds |-> NoTask]
    /\ observables = [t \in TaskIds |-> <<>>]
    /\ enqueued = [t \in TaskIds |-> IF t = 1 THEN 1 ELSE 0]
    /\ \E err \in BOOLEAN :
          settings = Settings(MaxFilesSetting, Ceiling + 1, err, ZipPasswords)

NextDispatch ==
    \/ \E t \in TaskIds : AnalyseBegin(t)
    \/ \E t \in TaskIds : AnalyseConverged(t)

SpecDispatch == InitDispatch /\ [][NextDispatch]_vars

\* The handlers analyse invokes on the Task's file.
Invoked(t) ==
    IF is_archive(file[t]) THEN { HandlerOf(file[t].mime_type) } \ {"unsupported"}
    ELSE {}

\* The one handler of the container subtype.
HandlerOfSubtype(mime) ==
    CASE mime = ZipMime -> "_extract_zip"
      [] mime = SevenZipMime -> "_extract_7z"
      [] mime = RarMime -> "_extract_rar"
      [] mime = TarMime -> "_extract_tar"
      [] mime = "application/gzip" -> "_extract_gz"
      [] mime = "application/x-bzip2" -> "_extract_bz2"
      [] mime = IsoMime -> "_extract_iso"
      [] OTHER -> "_extract_lzma"

\* C34: whatever the extension of its name, analyse of a file whose MIME
\* type is that of a supported container subtype invokes the handler of
\* the subtype, and only it, and does not report NOTAPPLICABLE (a status
\* the Report can then only have as the maximum over child Tasks).
C34_DispatchTotal ==
    \A t \in tasks :
        (pc[t] # "idle" /\ parent[t] = NoTask /\ file[t].mime_type \in SupportedMimes)
            => /\ Invoked(t) = { HandlerOfSubtype(file[t].mime_type) }
               /\ spawned[t] = <<>> => ExtractorReport(t).status # "NOTAPPLICABLE"

-----------------------------------------------------------------------------
(* Properties of the origin, under SpecConv.                               *)

\* The Task at the top of the chain of Task.parent the Task is in.
RECURSIVE TopWithin(_, _)
TopWithin(t, n) ==
    IF n = 0 \/ parent[t] = NoTask THEN t ELSE TopWithin(parent[t], n - 1)

TopAncestor(t) == TopWithin(t, MaxTasks)

-----------------------------------------------------------------------------
(* Properties of the disabled workers, under Spec.                         *)

\* The Reports a worker may have stored.
StoredReports ==
    { Report(st, d, <<>>, {}) : st \in {"RUNNING", "CLEAN", "ALERT"}, d \in BOOLEAN }

\* C36: workers_done holds exactly when every configured worker that is not
\* in the Task's disabled set has a stored, finished Report; the Task has
\* one Report per such worker and none for a disabled one, and whatever
\* Report were stored for a disabled worker, workers_done and the status
\* read would be the same.
C36_TerminalIffEnabledFinished ==
    \A t \in tasks :
        /\ workers_done(t)
              <=> \A w \in Workers \ disabled_workers[t] :
                      HasReport(t, w) /\ storage[t][w].is_done
        /\ Len(reports(t)) = Cardinality(Workers \ disabled_workers[t])
        /\ \A w \in disabled_workers[t] :
              /\ ~HasReport(t, w)
              /\ \A r \in StoredReports :
                    /\ ReportsIn([storage EXCEPT ![t][w] = r], t) = reports(t)
                    /\ StatusOf(_status[t], ReportsIn([storage EXCEPT ![t][w] = r], t))
                           = status(t)

\* A Task with one worker disabled is terminal: its two other workers have
\* finished, and nothing is stored for the disabled one.
C36_Witness ==
    /\ disabled_workers[1] = {"yara"}
    /\ workers_done(1)
    /\ HasReport(1, "extractor") /\ HasReport(1, "observables")
    /\ ~HasReport(1, "yara")

-----------------------------------------------------------------------------
(* SpecObservables: the Observables worker and the Extractor on a          *)
(* submission and its child Task.                                          *)

\* The observables a Task of the model has at most.
MaxObservables == 2

\* The statuses an observable of the model has.
ObservableStatuses == {"UNKNOWN", "CLEAN", "WARN", "ALERT"}

\* What task.init_observables_from_file() comes to: the observables it
\* finds in the file, given by their statuses in the order of
\* task.observables, or an exception.
ObservableOutcomes ==
    { [kind |-> "ok", obs |-> o] : o \in SeqsUpTo(ObservableStatuses, MaxObservables) }
    \cup { [kind |-> k, obs |-> <<>>] : k \in {"TooManyObservables", "Exception"} }

\* report.add_details("suspicious", message)
Suspicious(msg) == [label |-> "suspicious", msg |-> msg, n |-> 0, limit |-> 0]

\* The detail Observables.analyse adds for a bad observable.
KnownAsBad == Detail("At least one observable in known as bad", 0, 0)

\* for observable in task.observables: report.status = observable.status
RECURSIVE ObservablesLoop(_, _, _)
ObservablesLoop(obs, i, rep) ==
    IF i > Len(obs) THEN rep
    ELSE ObservablesLoop(obs, i + 1, SetStatus(rep, obs[i]))

\* The try block of Observables.analyse once the observables are there.
ObservablesVerdict(obs, rep) ==
    CHOOSE v \in
        { IF Rank(r.status) >= Rank("WARN") THEN add_details(r, KnownAsBad) ELSE r :
          r \in { ObservablesLoop(obs, 1, rep) } } : TRUE

\* Observables.analyse with its except clauses.
ObservablesReport(o, rep) ==
    CASE o.kind = "ok" -> ObservablesVerdict(o.obs, rep)
      [] o.kind = "TooManyObservables" ->
             add_details(SetStatus(rep, "WARN"),
                         Suspicious("There are too many observables in this file."))
      [] OTHER ->
             add_details(SetStatus(rep, "WARN"), Suspicious("Unable to get observables"))

\* The runner runs the Observables worker on the Task: a RUNNING Report,
\* analyse (which sets the Task's observables from its file), and the
\* Report marked finished.
ObservablesAnalyse(t) ==
    /\ t \in tasks
    /\ IsEnabled(t, "observables")
    /\ LoadReport(t, "observables").status = "WAITING"
    /\ \E o \in ObservableOutcomes :
          /\ observables' = [observables EXCEPT ![t] = IF o.kind = "ok" THEN o.obs ELSE @]
          /\ storage' = [storage EXCEPT ![t]["observables"] =
                             Finished(ObservablesReport(o, Report("RUNNING", FALSE, <<>>, {})))]
    /\ UNCHANGED << tasks, parent, file, disabled_workers, _status, lastRead,
                    pc, spawned, extractedOf, task_password, settings,
                    references, enqueued, extracted_dir, origin >>

InitObservables ==
    /\ tasks = {1}
    /\ parent = [t \in TaskIds |-> NoTask]
    /\ \E f \in { PlainFile(FALSE, 1), Zip(<< PlainFile(FALSE, 1) >>) } :
          file = [t \in TaskIds |-> IF t = 1 THEN f ELSE NoFile]
    /\ _status = [t \in TaskIds |-> "WAITING"]
    /\ disabled_workers = [t \in TaskIds |-> {"yara"}]
    /\ storage = [t \in TaskIds |-> [w \in Workers |-> NoReport]]
    /\ lastRead = [t \in TaskIds |-> None]
    /\ pc = [t \in TaskIds |-> "idle"]
    /\ spawned = [t \in TaskIds |-> <<>>]
    /\ extractedOf = [t \in TaskIds |-> <<>>]
    /\ task_password = [t \in TaskIds |-> 0]
    /\ references = {}
    /\ extracted_dir = [t \in TaskIds |-> FALSE]
    /\ origin = [t \in TaskIds |-> NoTask]
    /\ observables = [t \in TaskIds |-> <<>>]
    /\ enqueued = [t \in TaskIds |-> IF t = 1 THEN 1 ELSE 0]
    /\ settings = DefaultSettings

NextObservables ==
    \/ \E t \in TaskIds : ObservablesAnalyse(t)
    \/ \E t \in TaskIds : AnalyseBegin(t)
    \/ \E t \in TaskIds : AnalyseConverged(t)

SpecObservables == InitObservables /\ [][NextObservables]_vars

\* C37: a step in which a worker's Report of a Task changes leaves the
\* Reports of the Task's other workers, the Task's File and every other
\* field of the Task as they were.
C37_WorkerFrame ==
    [][\A t \in tasks, w \in Workers :
          storage'[t][w] # storage[t][w]
              => /\ \A w2 \in Workers \ {w} : storage'[t][w2] = storage[t][w2]
                 /\ file'[t] = file[t]
                 /\ parent'[t] = parent[t]
                 /\ origin'[t] = origin[t]
                 /\ disabled_workers'[t] = disabled_workers[t]
                 /\ task_password'[t] = task_password[t]
                 /\ _status'[t] = _status[t]
                 /\ observables'[t] = observables[t]]_vars


\* Observables.analyse has returned for the Task, by none of its except
\* clauses.
ObservablesReturned(t) ==
    /\ HasReport(t, "observables")
    /\ storage[t]["observables"].is_done
    /\ \A j \in 1..Len(storage[t]["observables"].details) :
          storage[t]["observables"].details[j].label # "suspicious"

\* C38: when Observables.analyse has returned without exception, the
\* Report's status is at least that of every observable of the Task, and
\* the Report has the warning detail exactly when its status is WARN or
\* higher.
C38_ObservablesMaximum ==
    \A t \in tasks :
        ObservablesReturned(t)
            => /\ \A i \in 1..Len(observables[t]) :
                     Rank(observables[t][i]) <= Rank(storage[t]["observables"].status)
               /\ (\E j \in 1..Len(storage[t]["observables"].details) :
                       storage[t]["observables"].details[j] = KnownAsBad)
                     <=> Rank(storage[t]["observables"].status) >= Rank("WARN")

-----------------------------------------------------------------------------
(* Properties of the number of child Tasks, under SpecExtract.             *)

\* C39: one run of the Extractor spawns at most max_files_in_archive child
\* Tasks, whether the Task's file is an archive, an email or a message.
C39_SpawnBounded ==
    \A t \in tasks :
        pc[t] # "idle" => Len(spawned[t]) <= settings.max_files_in_archive

====
